---- MODULE Spec2Model ----
(***************************************************************************)
(* Model of the Graylog Swagger 1.2 -> OpenAPI 3.0 converter               *)
(* (scripts/generate-openapi.js).                                          *)
(*                                                                         *)
(* JavaScript values are encoded as follows.                               *)
(*   - a string is a TLA+ string; startsWith/includes/replace work on its  *)
(*     characters (Len, SubSeq and \o act on strings);                      *)
(*   - an optional field is a sequence of length 0 (absent/undefined) or 1 *)
(*     (present); a string is falsy when it is absent or empty;            *)
(*   - an object whose keys are operated on as a set (responses, content)  *)
(*     is a function from key strings.                                     *)
(***************************************************************************)
EXTENDS Integers, Sequences, FiniteSets, TLC

VARIABLES
    opIn,        \* convertOperation: its arguments [op, path, method]
    pcOp,        \* convertOperation: position ("input", "merge", "converted")
    successCodeV,\* convertOperation: the local successCode
    responses,   \* convertOperation: operation.responses being built
    walk,        \* convertOperation: responseMessages entries merged so far
    catIn,       \* categorizePath: its argument (api.path)
    pcCat,       \* categorization: position ("input", "categorized", "tagged")
    catCategory, \* the category categorizePath returned
    catTag,      \* the tag getTagForCategory returned
    endpointData,\* generateOpenAPI: the parsed input file, absent when unreadable
    yamlFallback,\* yaml.isFallback: js-yaml could not be loaded
    pc,          \* generateOpenAPI: position
    idx,         \* generateOpenAPI: the descriptor endpointData.forEach is at
    domainPaths, \* category -> path -> method -> operation (key-ordered maps)
    allModels,   \* model name -> legacy model (key-ordered map)
    coreSchemas, \* the three schema buckets (key-ordered maps)
    pluginSchemas,
    commonSchemas,
    mainSpec,    \* the paths and components.schemas of the root document
    files,       \* the files written: file name -> content
    fixed,       \* the files the primitive fix rewrote (its log lines)
    exitCode,    \* the exit status of the process, -1 while it runs
    runNo,       \* which run over the same input file this is (1 or 2)
    firstFallback,\* yaml.isFallback of the first run
    firstFiles,  \* the files as the first run left them
    firstExit,   \* the exit status of the first run
    callFn,      \* a call of one of the converter's functions: the function,
    callIn,      \*   its arguments,
    pcCall,      \*   its position ("called", "returned"),
    callOut,     \*   and the value it returned
    args,        \* all.js: process.argv.slice(2)
    graylogUrlEnv,\* all.js: process.env.GRAYLOG_URL
    pcStep,      \* all.js: position of the step runner
    started,     \* all.js: the steps started, in order (the "Running" lines)
    statuses,    \* all.js: result.status of each started step
    fileExists,  \* all.js: fs.existsSync(endpointsFile), absent before line 24
    exitStatus   \* all.js: the status the runner exited with, -1 while it runs

opVars == <<opIn, pcOp, successCodeV, responses, walk>>
catVars == <<catIn, pcCat, catCategory, catTag>>
firstVars == <<runNo, firstFallback, firstFiles, firstExit>>
runVars == <<endpointData, yamlFallback, pc, idx, domainPaths, allModels, coreSchemas,
             pluginSchemas, commonSchemas, mainSpec, files, fixed, exitCode, firstVars>>
callVars == <<callFn, callIn, pcCall, callOut>>
stepVars == <<args, graylogUrlEnv, pcStep, started, statuses, fileExists, exitStatus>>
vars == <<opVars, catVars, runVars, callVars, stepVars>>

----------------------------------------------------------------------------
(* Bounds of the explored inputs *)

\* longest responseMessages list
MaxMsgs == 2
\* most path pieces (PathTokens) an explored api.path is made of
MaxPathTokens == 2

----------------------------------------------------------------------------
(* Optional values and JavaScript string primitives *)

Absent == <<>>
Some(v) == <<v>>
Has(o) == o # <<>>
Val(o) == o[1]
\* JS truthiness of an optional string: present and not ''
Truthy(o) == Has(o) /\ Val(o) # ""
\* (x || dflt) for an optional string
OrElse(o, dflt) == IF Truthy(o) THEN Val(o) ELSE dflt

StartsWith(s, p) == Len(p) <= Len(s) /\ SubSeq(s, 1, Len(p)) = p
Includes(s, p) == \E i \in 1..(Len(s) - Len(p) + 1) : SubSeq(s, i, i + Len(p) - 1) = p


\* the characters of a string, as a set
Chars(str) == {SubSeq(str, i, i) : i \in 1..Len(str)}
Least(S) == CHOOSE i \in S : \A j \in S : i <= j

\* String.prototype.split on single separator characters
RECURSIVE Split(_, _)
Split(s, seps) ==
    LET at == {i \in 1..Len(s) : SubSeq(s, i, i) \in seps} IN
    IF at = {} THEN <<s>>
    ELSE <<SubSeq(s, 1, Least(at) - 1)>> \o Split(SubSeq(s, Least(at) + 1, Len(s)), seps)

\* Array.prototype.join
RECURSIVE Join(_, _)
Join(parts, sep) ==
    IF parts = <<>> THEN ""
    ELSE IF Len(parts) = 1 THEN parts[1]
    ELSE parts[1] \o sep \o Join(Tail(parts), sep)

\* xs.filter(Boolean) on an array of strings: drops the empty strings
RECURSIVE FilterBoolean(_)
FilterBoolean(xs) ==
    IF xs = <<>> THEN <<>>
    ELSE IF Head(xs) # "" THEN <<Head(xs)>> \o FilterBoolean(Tail(xs))
    ELSE FilterBoolean(Tail(xs))

\* Array.from(new Set(xs)): first occurrences, in order
RECURSIVE Dedupe(_)
Dedupe(xs) ==
    IF xs = <<>> THEN <<>>
    ELSE LET front == Dedupe(SubSeq(xs, 1, Len(xs) - 1))
             last == xs[Len(xs)] IN
         IF \E i \in 1..Len(front) : front[i] = last THEN front ELSE Append(front, last)

(* A JavaScript object whose key order matters (Object.keys) is a sequence *)
(* of <<key, value>> pairs in insertion order.                             *)
MapKeys(m) == [i \in 1..Len(m) |-> m[i][1]]
MapHas(m, k) == \E i \in 1..Len(m) : m[i][1] = k
MapGet(m, k) == m[CHOOSE i \in 1..Len(m) : m[i][1] = k][2]
MapPut(m, k, v) ==
    IF MapHas(m, k)
    THEN [m EXCEPT ![CHOOSE i \in 1..Len(m) : m[i][1] = k] = <<k, v>>]
    ELSE Append(m, <<k, v>>)

----------------------------------------------------------------------------
(* categorizePath and getTagForCategory *)

\* faulty variant: the plugin keyword rules are tried before the core prefix rules
categorizePathPluginsFirst(path) ==
    IF Includes(path, "archive") THEN "plugin-archive"
    ELSE IF Includes(path, "security") \/ Includes(path, "investigations")
            \/ Includes(path, "teams") THEN "plugin-security"
    ELSE IF Includes(path, "illuminate") \/ Includes(path, "bundles") THEN "plugin-illuminate"
    ELSE IF Includes(path, "integrations") \/ Includes(path, "aws") \/ Includes(path, "azure")
            \/ Includes(path, "crowdstrike") \/ Includes(path, "okta")
            \/ Includes(path, "mimecast") THEN "plugin-integrations"
    ELSE IF Includes(path, "datawarehouse") \/ Includes(path, "data_warehouse")
         THEN "plugin-datawarehouse"
    ELSE IF Includes(path, "forwarder") THEN "plugin-forwarder"
    ELSE IF Includes(path, "license") THEN "plugin-license"
    ELSE IF Includes(path, "report") THEN "plugin-reports"
    ELSE IF StartsWith(path, "/sidecar") THEN "plugin-sidecar"
    ELSE IF StartsWith(path, "/system/") \/ StartsWith(path, "/cluster/") THEN "core-system"
    ELSE IF StartsWith(path, "/streams") THEN "core-streams"
    ELSE IF StartsWith(path, "/search") \/ StartsWith(path, "/views/search")
            \/ StartsWith(path, "/messages") THEN "core-search"
    ELSE IF StartsWith(path, "/events") THEN "core-events"
    ELSE IF StartsWith(path, "/users") \/ StartsWith(path, "/roles")
            \/ StartsWith(path, "/authz") THEN "core-users"
    ELSE IF StartsWith(path, "/inputs") THEN "core-inputs"
    ELSE IF StartsWith(path, "/dashboards")
            \/ (StartsWith(path, "/views") /\ ~Includes(path, "search")) THEN "core-dashboard"
    ELSE "misc-admin"

categorizePath(path) ==
    IF StartsWith(path, "/system/") \/ StartsWith(path, "/cluster/") THEN "core-system"
    ELSE IF StartsWith(path, "/streams") THEN "core-streams"
    ELSE IF StartsWith(path, "/search") \/ StartsWith(path, "/views/search")
            \/ StartsWith(path, "/messages") THEN "core-search"
    ELSE IF StartsWith(path, "/events") THEN "core-events"
    ELSE IF StartsWith(path, "/users") \/ StartsWith(path, "/roles")
            \/ StartsWith(path, "/authz") THEN "core-users"
    ELSE IF StartsWith(path, "/inputs") THEN "core-inputs"
    ELSE IF StartsWith(path, "/dashboards")
            \/ (StartsWith(path, "/views") /\ ~Includes(path, "search")) THEN "core-dashboard"
    ELSE IF Includes(path, "archive") THEN "plugin-archive"
    ELSE IF Includes(path, "security") \/ Includes(path, "investigations")
            \/ Includes(path, "teams") THEN "plugin-security"
    ELSE IF Includes(path, "illuminate") \/ Includes(path, "bundles") THEN "plugin-illuminate"
    ELSE IF Includes(path, "integrations") \/ Includes(path, "aws") \/ Includes(path, "azure")
            \/ Includes(path, "crowdstrike") \/ Includes(path, "okta")
            \/ Includes(path, "mimecast") THEN "plugin-integrations"
    ELSE IF Includes(path, "datawarehouse") \/ Includes(path, "data_warehouse")
         THEN "plugin-datawarehouse"
    ELSE IF Includes(path, "forwarder") THEN "plugin-forwarder"
    ELSE IF Includes(path, "license") THEN "plugin-license"
    ELSE IF Includes(path, "report") THEN "plugin-reports"
    ELSE IF StartsWith(path, "/sidecar") THEN "plugin-sidecar"
    ELSE "misc-admin"

\* faulty variant: the key of the dashboards entry is misspelt, so the lookup misses
getTagForCategoryMisspelt(cat) ==
    CASE cat = "core-system" -> "System"
      [] cat = "core-streams" -> "Streams"
      [] cat = "core-search" -> "Search"
      [] cat = "core-events" -> "Events"
      [] cat = "core-users" -> "Users"
      [] cat = "core-inputs" -> "Inputs"
      [] cat = "core-dashboards" -> "Dashboards"
      [] cat = "plugin-archive" -> "Archive Plugin"
      [] cat = "plugin-security" -> "Security Plugin"
      [] cat = "plugin-illuminate" -> "Illuminate Plugin"
      [] cat = "plugin-integrations" -> "Integrations"
      [] cat = "plugin-datawarehouse" -> "Data Warehouse Plugin"
      [] cat = "plugin-forwarder" -> "Forwarder Plugin"
      [] cat = "plugin-license" -> "License Plugin"
      [] cat = "plugin-reports" -> "Reports Plugin"
      [] cat = "plugin-sidecar" -> "Sidecar Plugin"
      [] cat = "misc-admin" -> "Administration"
      [] OTHER -> "Other"

\* tagMap[category] || 'Other'
getTagForCategory(cat) ==
    CASE cat = "core-system" -> "System"
      [] cat = "core-streams" -> "Streams"
      [] cat = "core-search" -> "Search"
      [] cat = "core-events" -> "Events"
      [] cat = "core-users" -> "Users"
      [] cat = "core-inputs" -> "Inputs"
      [] cat = "core-dashboard" -> "Dashboards"
      [] cat = "plugin-archive" -> "Archive Plugin"
      [] cat = "plugin-security" -> "Security Plugin"
      [] cat = "plugin-illuminate" -> "Illuminate Plugin"
      [] cat = "plugin-integrations" -> "Integrations"
      [] cat = "plugin-datawarehouse" -> "Data Warehouse Plugin"
      [] cat = "plugin-forwarder" -> "Forwarder Plugin"
      [] cat = "plugin-license" -> "License Plugin"
      [] cat = "plugin-reports" -> "Reports Plugin"
      [] cat = "plugin-sidecar" -> "Sidecar Plugin"
      [] cat = "misc-admin" -> "Administration"
      [] OTHER -> "Other"

(* Inputs of categorizePath: paths put together from the pieces the rules   *)
(* look for and from neutral ones.                                         *)

PathTokens ==
    { "/system/", "/cluster/", "/streams", "/search", "/views", "/messages", "/events",
      "/users", "/roles", "/authz", "/inputs", "/dashboards",
      "/archive", "/security", "/investigations", "/teams", "/illuminate", "/bundles",
      "/integrations", "/aws", "/azure", "/crowdstrike", "/okta", "/mimecast",
      "/datawarehouse", "/data_warehouse", "/forwarder", "/license", "/report", "/sidecar",
      "/system", "/x", "/{id}" }

RECURSIVE Concat(_)
Concat(ts) == IF ts = <<>> THEN "" ELSE Head(ts) \o Concat(Tail(ts))

ApiPaths == {Concat(ts) : ts \in UNION {[1..k -> PathTokens] : k \in 1..MaxPathTokens}}

IdleCat == catIn = "" /\ pcCat = "idle" /\ catCategory = "" /\ catTag = ""
\* no function is called on its own
IdleCall == callFn = "" /\ callIn = <<>> /\ pcCall = "idle" /\ callOut = <<>>
\* generateOpenAPI is not running
IdleRun ==
    /\ endpointData = <<>> /\ yamlFallback = FALSE /\ pc = "idle" /\ idx = 0
    /\ domainPaths = <<>> /\ allModels = <<>>
    /\ coreSchemas = <<>> /\ pluginSchemas = <<>> /\ commonSchemas = <<>>
    /\ mainSpec = <<>> /\ files = <<>> /\ fixed = {} /\ exitCode = -1
    /\ runNo = 0 /\ firstFallback = FALSE /\ firstFiles = <<>> /\ firstExit = -1
\* the step runner is not running
IdleSteps ==
    /\ args = <<>> /\ graylogUrlEnv = <<>> /\ pcStep = "idle" /\ started = <<>>
    /\ statuses = <<>> /\ fileExists = <<>> /\ exitStatus = -1

InitCat ==
    /\ catIn \in ApiPaths
    /\ pcCat = "input"
    /\ catCategory = ""
    /\ catTag = ""

----------------------------------------------------------------------------
(* titleize, pathToHierTag *)

LowerCase == "abcdefghijklmnopqrstuvwxyz"
UpperCase == "ABCDEFGHIJKLMNOPQRSTUVWXYZ"
Digits == "0123456789"
\* String.prototype.toUpperCase on one character (ASCII)
ToUpper(c) ==
    IF c \in Chars(LowerCase)
    THEN LET i == CHOOSE k \in 1..Len(LowerCase) : SubSeq(LowerCase, k, k) = c
         IN SubSeq(UpperCase, i, i)
    ELSE c

\* w => /^[A-Z0-9]+$/.test(w) ? w : w.charAt(0).toUpperCase() + w.slice(1)
TitleWord(w) ==
    IF w # "" /\ Chars(w) \subseteq (Chars(UpperCase) \cup Chars(Digits)) THEN w
    ELSE IF w = "" THEN ""
    ELSE ToUpper(SubSeq(w, 1, 1)) \o SubSeq(w, 2, Len(w))

\* faulty variant: a segment with a dot is titleized like the others
titleizeDotted(seg) ==
    IF seg = "" THEN seg
    ELSE LET words == Split(seg, {"-", "_"}) IN
         Join([i \in 1..Len(words) |-> TitleWord(words[i])], " ")

titleize(seg) ==
    IF seg = "" THEN seg
    ELSE IF Includes(seg, ".") THEN seg
    ELSE LET words == Split(seg, {"-", "_"}) IN
         Join([i \in 1..Len(words) |-> TitleWord(words[i])], " ")

\* resourcePath is an optional string; the result is '' when it is falsy
pathToHierTag(resourcePath) ==
    IF ~Truthy(resourcePath) THEN ""
    ELSE LET parts == FilterBoolean(Split(Val(resourcePath), {"/"})) IN
         Join([i \in 1..Len(parts) |-> titleize(parts[i])], "/")

----------------------------------------------------------------------------
(* convertOperation: responses *)

SUCCESS_SET == {"200", "201", "202", "204"}

\* String(rm.code || '') of the first walk
CodeFirstWalk(rm) == OrElse(rm.code, "")
\* String(resp.code) of the second walk
CodeSecondWalk(resp) == IF Has(resp.code) THEN Val(resp.code) ELSE "undefined"

\* faulty variant: the scan does not stop at the first success code (no break)
RECURSIVE ScanSuccessNoBreak(_, _)
ScanSuccessNoBreak(rms, i) ==
    IF i > Len(rms) THEN Absent
    ELSE LET rest == ScanSuccessNoBreak(rms, i + 1) IN
         IF Has(rest) THEN rest
         ELSE IF CodeFirstWalk(rms[i]) \in SUCCESS_SET THEN Some(CodeFirstWalk(rms[i]))
         ELSE Absent

\* for (const rm of op.responseMessages) { ... break; } from entry i on
RECURSIVE ScanSuccess(_, _)
ScanSuccess(rms, i) ==
    IF i > Len(rms) THEN Absent
    ELSE IF CodeFirstWalk(rms[i]) \in SUCCESS_SET THEN Some(CodeFirstWalk(rms[i]))
    ELSE ScanSuccess(rms, i + 1)

successCodeFromSpec(op) ==
    IF Has(op.responseMessages) THEN ScanSuccess(Val(op.responseMessages), 1) ELSE Absent

\* faulty variant: the POST rule forgets the path test
successCodePostAlways(op, path, method) ==
    IF Has(successCodeFromSpec(op)) THEN Val(successCodeFromSpec(op))
    ELSE IF method = "delete" THEN "204"
    ELSE IF method = "put" /\ op.type = Some("void") THEN "204"
    ELSE IF method = "post" THEN "201"
    ELSE "200"

successCode(op, path, method) ==
    IF Has(successCodeFromSpec(op)) THEN Val(successCodeFromSpec(op))
    ELSE IF method = "delete" THEN "204"
    ELSE IF method = "put" /\ op.type = Some("void") THEN "204"
    ELSE IF method = "post" /\ ~Includes(path, "{") THEN "201"
    ELSE "200"

\* op.type && op.type !== 'any' ? { $ref } : { type: 'object' }
TypeSchema(type) ==
    IF Truthy(type) /\ Val(type) # "any"
    THEN [ref |-> Some("#/components/schemas/" \o Val(type)), type |-> Absent]
    ELSE [ref |-> Absent, type |-> Some("object")]

\* op.produces || ['application/json']
Produces(op) == IF Has(op.produces) THEN Val(op.produces) ELSE <<"application/json">>

ResponseContent(op) ==
    LET produces == Produces(op) IN
    [mediaType \in {produces[i] : i \in 1..Len(produces)} |-> [schema |-> TypeSchema(op.type)]]

\* faulty variant: the content block is attached to a 204 response too
SuccessResponseContentOn204(op, code) ==
    IF op.type # Some("void")
    THEN [description |-> "Successful response", content |-> Some(ResponseContent(op))]
    ELSE [description |-> "Successful response", content |-> Absent]

\* operation.responses[successCode] after lines 218-234
SuccessResponse(op, code) ==
    IF code # "204" /\ op.type # Some("void")
    THEN [description |-> "Successful response", content |-> Some(ResponseContent(op))]
    ELSE [description |-> "Successful response", content |-> Absent]

\* faulty variant: entries of other codes are not added
MergeResponseSuccessOnly(resps, resp, code) ==
    LET c == CodeSecondWalk(resp)
        message == OrElse(resp.message, "") IN
    IF c = code
    THEN [resps EXCEPT ![c].description =
              IF message # "" THEN message
              ELSE IF resps[c].description # "" THEN resps[c].description
              ELSE "Successful response"]
    ELSE resps

\* faulty variant: the chosen response is rebuilt from the message, as the others are
MergeResponseRebuild(resps, resp, code) ==
    LET c == CodeSecondWalk(resp)
        message == OrElse(resp.message, "") IN
    IF c \in DOMAIN resps
    THEN [resps EXCEPT ![c] = [description |-> message, content |-> Absent]]
    ELSE (c :> [description |-> message, content |-> Absent]) @@ resps

\* one iteration of op.responseMessages.forEach, lines 238-249
\* (operation.responses[successCode] exists since line 218)
MergeResponse(resps, resp, code) ==
    LET c == CodeSecondWalk(resp)
        message == OrElse(resp.message, "") IN
    IF c = code
    THEN [resps EXCEPT ![c].description =
              IF message # "" THEN message
              ELSE IF resps[c].description # "" THEN resps[c].description
              ELSE "Successful response"]
    ELSE IF c \in DOMAIN resps
    THEN [resps EXCEPT ![c] = [description |-> message, content |-> Absent]]
    ELSE (c :> [description |-> message, content |-> Absent]) @@ resps

\* operation.responses at line 235
InitialResponses(op, path, method) ==
    LET code == successCode(op, path, method) IN
    code :> SuccessResponse(op, code)

\* the responseMessages the second walk visits (none when absent or empty)
MergeList(op) == IF Has(op.responseMessages) THEN Val(op.responseMessages) ELSE <<>>

RECURSIVE MergeResponses(_, _, _, _)
MergeResponses(resps, rms, i, code) ==
    IF i > Len(rms) THEN resps
    ELSE MergeResponses(MergeResponse(resps, rms[i], code), rms, i + 1, code)

\* operation.responses as convertOperation returns it
convertOperationResponses(op, path, method) ==
    MergeResponses(InitialResponses(op, path, method), MergeList(op), 1,
                   successCode(op, path, method))

----------------------------------------------------------------------------
(* mapSwaggerType, convertParameter, convertOperation *)

\* typeMap[swaggerType] || swaggerType
mapSwaggerType(swaggerType) ==
    CASE swaggerType \in {"int", "long"} -> "integer"
      [] swaggerType \in {"float", "double"} -> "number"
      [] swaggerType \in {"byte", "binary", "date", "dateTime", "password"} -> "string"
      [] OTHER -> swaggerType

\* faulty variant: any paramType given is taken over as 'in'
convertParameterInVerbatim(param) ==
    IF param.paramType = Some("body") THEN Absent
    ELSE Some([ name |-> param.name,
                description |-> OrElse(param.description, ""),
                in |-> IF Truthy(param.paramType) THEN Val(param.paramType) ELSE "query",
                required |-> (Has(param.required) /\ Val(param.required)),
                schema |-> [ type |-> mapSwaggerType(OrElse(param.type, "string")),
                             default |-> param.defaultValue,
                             enum |-> param.enum ] ])

\* the value of convertParameter: Absent stands for null (a body parameter)
convertParameter(param) ==
    IF param.paramType = Some("body") THEN Absent
    ELSE Some([ name |-> param.name,
                description |-> OrElse(param.description, ""),
                in |-> IF param.paramType \in {Some("path"), Some("query"), Some("header")}
                       THEN Val(param.paramType) ELSE "query",
                required |-> (Has(param.required) /\ Val(param.required)),
                schema |-> [ type |-> mapSwaggerType(OrElse(param.type, "string")),
                             default |-> param.defaultValue,
                             enum |-> param.enum ] ])

\* path.replace(/[^a-zA-Z0-9]/g, '_')
RECURSIVE ReplaceNonAlnum(_)
ReplaceNonAlnum(s) ==
    IF s = "" THEN ""
    ELSE (IF SubSeq(s, 1, 1) \in Chars(LowerCase) \cup Chars(UpperCase) \cup Chars(Digits)
          THEN SubSeq(s, 1, 1) ELSE "_") \o ReplaceNonAlnum(SubSeq(s, 2, Len(s)))

\* op.parameters.filter(p => p.paramType !== 'body'), then convertParameter
RECURSIVE RegularParams(_)
RegularParams(params) ==
    IF params = <<>> THEN <<>>
    ELSE IF Head(params).paramType # Some("body")
    THEN <<Head(params)>> \o RegularParams(Tail(params))
    ELSE RegularParams(Tail(params))

RECURSIVE ConvertedParams(_)
ConvertedParams(params) ==
    IF params = <<>> THEN <<>>
    ELSE LET converted == convertParameter(Head(params)) IN
         (IF Has(converted) THEN <<Val(converted)>> ELSE <<>>) \o ConvertedParams(Tail(params))

\* op.parameters.find(p => p.paramType === 'body')
BodyParam(params) ==
    LET at == {i \in 1..Len(params) : params[i].paramType = Some("body")} IN
    IF at = {} THEN Absent ELSE Some(params[Least(at)])

\* faulty variant: a request body is always required
RequestBodyAlwaysRequired(bodyParam) ==
    [ required |-> TRUE,
      content |-> ("application/json" :> [schema |-> TypeSchema(bodyParam.type)]),
      description |-> IF Truthy(bodyParam.description) THEN bodyParam.description ELSE Absent ]

\* lines 179-192
RequestBody(bodyParam) ==
    [ required |-> (Has(bodyParam.required) /\ Val(bodyParam.required)),
      content |-> ("application/json" :> [schema |-> TypeSchema(bodyParam.type)]),
      description |-> IF Truthy(bodyParam.description) THEN bodyParam.description ELSE Absent ]

\* faulty variant: the hierarchical tag is pushed first
OperationTagsHierFirst(flatTag, hierTag) ==
    Dedupe((IF Truthy(hierTag) THEN <<Val(hierTag)>> ELSE <<>>)
           \o (IF Truthy(flatTag) THEN <<Val(flatTag)>> ELSE <<>>))

\* lines 158-161; flatTag and hierTag are optional strings
OperationTags(flatTag, hierTag) ==
    Dedupe((IF Truthy(flatTag) THEN <<Val(flatTag)>> ELSE <<>>)
           \o (IF Truthy(hierTag) THEN <<Val(hierTag)>> ELSE <<>>))

convertOperation(op, path, method, flatTag, hierTag) ==
    LET params == IF Has(op.parameters) THEN Val(op.parameters) ELSE <<>>
        regularParams == RegularParams(params)
        bodyParam == BodyParam(params)
    IN
    [ summary |-> OrElse(op.summary, ""),
      operationId |-> OrElse(op.nickname, method \o "_" \o ReplaceNonAlnum(path)),
      description |-> IF Truthy(op.notes) THEN op.notes ELSE Absent,
      tags |-> OperationTags(flatTag, hierTag),
      parameters |-> IF regularParams # <<>> THEN Some(ConvertedParams(regularParams))
                     ELSE Absent,
      requestBody |-> IF Has(bodyParam) THEN Some(RequestBody(Val(bodyParam))) ELSE Absent,
      responses |-> convertOperationResponses(op, path, method) ]

----------------------------------------------------------------------------
(* convertModel, convertProperty *)

(* A legacy property descriptor is a record of optional fields             *)
(*   ref ($ref), type, items, properties, additional_properties,           *)
(*   description, format, enum, default                                    *)
(* and a converted schema a record of optional fields; properties are      *)
(* key-ordered maps.                                                       *)
NoProp ==
    [ ref |-> Absent, type |-> Absent, items |-> Absent, properties |-> Absent,
      additional_properties |-> Absent, description |-> Absent, format |-> Absent,
      enum |-> Absent, default |-> Absent ]
NoSchema ==
    [ ref |-> Absent, type |-> Absent, items |-> Absent, properties |-> Absent,
      additionalProperties |-> Absent, description |-> Absent, format |-> Absent,
      enum |-> Absent, default |-> Absent, required |-> Absent ]
\* { type: 'object' }
ObjectSchema == [NoSchema EXCEPT !.type = Some("object")]
\* a value of additionalProperties: a schema, or the boolean true
SchemaValue(schema) == [isTrue |-> FALSE, schema |-> schema]
TrueValue == [isTrue |-> TRUE, schema |-> NoSchema]

\* prop.$ref.split(':').pop()
LastOf(xs) == xs[Len(xs)]
LocalName(ref) == LastOf(Split(ref, {":"}))

\* faulty variant: the description of a reference property is not carried over
RECURSIVE convertPropertyRefNoDescription(_)
convertPropertyRefNoDescription(prop) ==
    LET shaped ==
          IF Truthy(prop.ref)
          THEN [NoSchema EXCEPT !.ref = Some("#/components/schemas/" \o LocalName(Val(prop.ref)))]
          ELSE IF prop.type = Some("array")
          THEN [NoSchema EXCEPT
                  !.type = Some("array"),
                  !.items = IF Has(prop.items)
                            THEN Some(convertPropertyRefNoDescription(Val(prop.items)))
                            ELSE Some(ObjectSchema)]
          ELSE IF prop.type = Some("object") \/ ~Truthy(prop.type)
          THEN [NoSchema EXCEPT
                  !.type = Some("object"),
                  !.properties =
                      IF Has(prop.properties)
                      THEN LET ps == Val(prop.properties) IN
                           Some([i \in 1..Len(ps) |->
                                   <<ps[i][1], convertPropertyRefNoDescription(ps[i][2])>>])
                      ELSE Absent,
                  !.additionalProperties =
                      IF Has(prop.additional_properties)
                      THEN Some(SchemaValue(
                               convertPropertyRefNoDescription(Val(prop.additional_properties))))
                      ELSE Absent]
          ELSE [NoSchema EXCEPT
                  !.type = Some(mapSwaggerType(Val(prop.type))),
                  !.format = IF Truthy(prop.format) THEN prop.format ELSE Absent,
                  !.enum = prop.enum,
                  !.default = prop.default]
    IN [shaped EXCEPT !.description =
            IF Truthy(prop.description) /\ ~Truthy(prop.ref) THEN prop.description
            ELSE Absent]

RECURSIVE convertProperty(_)
convertProperty(prop) ==
    LET shaped ==
          IF Truthy(prop.ref)
          THEN [NoSchema EXCEPT !.ref = Some("#/components/schemas/" \o LocalName(Val(prop.ref)))]
          ELSE IF prop.type = Some("array")
          THEN [NoSchema EXCEPT
                  !.type = Some("array"),
                  !.items = IF Has(prop.items) THEN Some(convertProperty(Val(prop.items)))
                            ELSE Some(ObjectSchema)]
          ELSE IF prop.type = Some("object") \/ ~Truthy(prop.type)
          THEN [NoSchema EXCEPT
                  !.type = Some("object"),
                  !.properties =
                      IF Has(prop.properties)
                      THEN LET ps == Val(prop.properties) IN
                           Some([i \in 1..Len(ps) |-> <<ps[i][1], convertProperty(ps[i][2])>>])
                      ELSE Absent,
                  !.additionalProperties =
                      IF Has(prop.additional_properties)
                      THEN Some(SchemaValue(convertProperty(Val(prop.additional_properties))))
                      ELSE Absent]
          ELSE [NoSchema EXCEPT
                  !.type = Some(mapSwaggerType(Val(prop.type))),
                  !.format = IF Truthy(prop.format) THEN prop.format ELSE Absent,
                  !.enum = prop.enum,
                  !.default = prop.default]
    IN [shaped EXCEPT !.description =
            IF Truthy(prop.description) THEN prop.description ELSE Absent]

(* A legacy model is a record of optional fields type, properties,         *)
(* required, additional_properties, items, enum, description, where        *)
(* additional_properties is [form, name, prop]: a type name (form          *)
(* "string"), a nested descriptor (form "object") or another truthy value  *)
(* such as true (form "other").                                            *)
convertModel(model) ==
    [ NoSchema EXCEPT
        !.type = Some(OrElse(model.type, "object")),
        !.properties =
            IF Has(model.properties)
            THEN LET ps == Val(model.properties) IN
                 Some([i \in 1..Len(ps) |-> <<ps[i][1], convertProperty(ps[i][2])>>])
            ELSE Absent,
        !.required = model.required,
        !.additionalProperties =
            IF ~Has(model.additional_properties) THEN Absent
            ELSE LET ap == Val(model.additional_properties) IN
                 IF ap.form = "string"
                 THEN Some(SchemaValue([NoSchema EXCEPT !.type = Some(ap.name)]))
                 ELSE IF ap.form = "object" THEN Some(SchemaValue(convertProperty(ap.prop)))
                 ELSE Some(TrueValue),
        !.items = IF Has(model.items) THEN Some(convertProperty(Val(model.items))) ELSE Absent,
        !.enum = model.enum ]

----------------------------------------------------------------------------
(* Serialisation: yaml.dump of js-yaml, or its JSON.stringify fallback     *)
(* (lines 19-27).  A document is dumped as text, one line per key and one  *)
(* per $ref or type entry; indentation, brackets and the scalar fields     *)
(* that carry neither a reference nor a type are left out of the text.     *)

KeyLine(isFallback, key) ==
    IF isFallback THEN "\"" \o key \o "\": {" ELSE key \o ":"
\* js-yaml quotes a scalar that starts with '#' with single quotes
RefLine(isFallback, target) ==
    IF isFallback THEN "\"$ref\": \"" \o target \o "\"" ELSE "$ref: '" \o target \o "'"
TypeLine(isFallback, type) ==
    IF isFallback THEN "\"type\": \"" \o type \o "\"" ELSE "type: " \o type

RECURSIVE Flatten(_)
Flatten(seqs) == IF seqs = <<>> THEN <<>> ELSE Head(seqs) \o Flatten(Tail(seqs))

RECURSIVE DumpSchema(_, _)
DumpSchema(isFallback, schema) ==
    (IF Has(schema.ref) THEN <<RefLine(isFallback, Val(schema.ref))>> ELSE <<>>)
    \o (IF Has(schema.type) THEN <<TypeLine(isFallback, Val(schema.type))>> ELSE <<>>)
    \o (IF Has(schema.properties)
        THEN LET ps == Val(schema.properties) IN
             <<KeyLine(isFallback, "properties")>>
             \o Flatten([i \in 1..Len(ps) |->
                           <<KeyLine(isFallback, ps[i][1])>> \o DumpSchema(isFallback, ps[i][2])])
        ELSE <<>>)
    \o (IF Has(schema.additionalProperties)
        THEN <<KeyLine(isFallback, "additionalProperties")>>
             \o (IF Val(schema.additionalProperties).isTrue THEN <<>>
                 ELSE DumpSchema(isFallback, Val(schema.additionalProperties).schema))
        ELSE <<>>)
    \o (IF Has(schema.items)
        THEN <<KeyLine(isFallback, "items")>> \o DumpSchema(isFallback, Val(schema.items))
        ELSE <<>>)

\* a { schema: { $ref | type } } entry of a content map
DumpTypeSchema(isFallback, schema) ==
    IF Has(schema.ref) THEN <<RefLine(isFallback, Val(schema.ref))>>
    ELSE <<TypeLine(isFallback, Val(schema.type))>>

\* key order of the objects kept as functions: integer-like keys ascending,
\* then the others (JavaScript property order), for the keys explored
KeyOrder ==
    << "200", "201", "202", "204", "400", "404", "undefined",
       "application/json", "text/csv" >>
OrderedKeys(f) ==
    LET at == {i \in 1..Len(KeyOrder) : KeyOrder[i] \in DOMAIN f}
        Nth[n \in 1..Cardinality(at)] ==
            IF n = 1 THEN Least(at) ELSE Least({i \in at : i > Nth[n - 1]})
    IN [n \in 1..Cardinality(at) |-> KeyOrder[Nth[n]]]

DumpContent(isFallback, content) ==
    LET keys == OrderedKeys(content) IN
    Flatten([i \in 1..Len(keys) |->
               <<KeyLine(isFallback, keys[i])>>
               \o DumpTypeSchema(isFallback, content[keys[i]].schema)])

DumpOperation(isFallback, operation) ==
    LET params == IF Has(operation.parameters) THEN Val(operation.parameters) ELSE <<>>
        codes == OrderedKeys(operation.responses)
    IN
    Flatten([i \in 1..Len(params) |->
               <<KeyLine(isFallback, params[i].name), TypeLine(isFallback, params[i].schema.type)>>])
    \o (IF Has(operation.requestBody)
        THEN <<KeyLine(isFallback, "requestBody")>>
             \o DumpContent(isFallback, Val(operation.requestBody).content)
        ELSE <<>>)
    \o <<KeyLine(isFallback, "responses")>>
    \o Flatten([i \in 1..Len(codes) |->
                  <<KeyLine(isFallback, codes[i])>>
                  \o (IF Has(operation.responses[codes[i]].content)
                      THEN DumpContent(isFallback, Val(operation.responses[codes[i]].content))
                      ELSE <<>>)])

\* the text of a line list
Text(lines) == Join(lines, "\n")

\* yaml.dump({ paths: domainPaths[category] }): paths is a key-ordered map
\* path -> (key-ordered map method -> operation)
DumpPaths(isFallback, paths) ==
    Text(<<KeyLine(isFallback, "paths")>>
         \o Flatten([i \in 1..Len(paths) |->
               <<KeyLine(isFallback, paths[i][1])>>
               \o Flatten([j \in 1..Len(paths[i][2]) |->
                     <<KeyLine(isFallback, paths[i][2][j][1])>>
                     \o DumpOperation(isFallback, paths[i][2][j][2])])]))

\* the body of a schema file: { components: { schemas } }
DumpSchemas(isFallback, schemas) ==
    Text(<<KeyLine(isFallback, "components"), KeyLine(isFallback, "schemas")>>
         \o Flatten([i \in 1..Len(schemas) |->
               <<KeyLine(isFallback, schemas[i][1])>> \o DumpSchema(isFallback, schemas[i][2])]))

----------------------------------------------------------------------------
(* escapeJsonPointer and the primitive reference fix (lines 683-713) *)

\* s.replace(/c/g, r) for a one-character pattern
RECURSIVE ReplaceChar(_, _, _)
ReplaceChar(s, c, r) ==
    IF s = "" THEN ""
    ELSE (IF SubSeq(s, 1, 1) = c THEN r ELSE SubSeq(s, 1, 1))
         \o ReplaceChar(SubSeq(s, 2, Len(s)), c, r)

\* faulty variant: '/' is replaced first
escapeJsonPointerSlashFirst(path) == ReplaceChar(ReplaceChar(path, "/", "~1"), "~", "~0")

escapeJsonPointer(path) == ReplaceChar(ReplaceChar(path, "~", "~0"), "/", "~1")

primitiveTypes == <<"string", "integer", "number", "boolean", "array", "object", "any">>

\* the strings the pattern \$ref: ['"]#/components/schemas/<type>['"] matches
RefPattern(type) ==
    {"$ref: " \o open \o "#/components/schemas/" \o type \o close :
        open \in {"'", "\""}, close \in {"'", "\""}}
RefPatternLen(type) == Len("$ref: '#/components/schemas/") + Len(type) + 1
\* the positions where the pattern matches
RefMatches(content, type) ==
    {i \in 1..(Len(content) - RefPatternLen(type) + 1) :
        /\ SubSeq(content, i, i + 5) = "$ref: "
        /\ SubSeq(content, i, i + RefPatternLen(type) - 1) \in RefPattern(type)}

\* faulty variant: the pattern lacks the g flag, only the first match is replaced
ReplaceRefsFirstOnly(content, type) ==
    LET at == RefMatches(content, type) IN
    IF at = {} THEN content
    ELSE SubSeq(content, 1, Least(at) - 1) \o "type: " \o type
         \o SubSeq(content, Least(at) + RefPatternLen(type), Len(content))

\* faulty variant: the name is matched as a prefix, the closing quote is not required
RECURSIVE ReplaceRefsPrefix(_, _)
ReplaceRefsPrefix(content, type) ==
    LET n == RefPatternLen(type) - 1
        at == {i \in 1..(Len(content) - n + 1) :
                  SubSeq(content, i, i + n - 1) = "$ref: '#/components/schemas/" \o type}
    IN
    IF at = {} THEN content
    ELSE SubSeq(content, 1, Least(at) - 1) \o "type: " \o type
         \o ReplaceRefsPrefix(SubSeq(content, Least(at) + n, Len(content)), type)

\* content.replace(refPattern, `type: ${type}`) with the g flag
RECURSIVE ReplaceRefs(_, _)
ReplaceRefs(content, type) ==
    LET at == RefMatches(content, type) IN
    IF at = {} THEN content
    ELSE SubSeq(content, 1, Least(at) - 1) \o "type: " \o type
         \o ReplaceRefs(SubSeq(content, Least(at) + RefPatternLen(type), Len(content)), type)

\* primitiveTypes.forEach from the i-th type on
RECURSIVE FixFrom(_, _)
FixFrom(content, i) ==
    IF i > Len(primitiveTypes) THEN content
    ELSE FixFrom(ReplaceRefs(content, primitiveTypes[i]), i + 1)

\* the content of a file after lines 697-706
FixContent(content) == FixFrom(content, 1)

----------------------------------------------------------------------------
(* generateOpenAPI: the fold over endpointData (lines 378-430) *)

\* String.prototype.toLowerCase (ASCII)
RECURSIVE ToLowerStr(_)
ToLowerStr(s) ==
    IF s = "" THEN ""
    ELSE LET c == SubSeq(s, 1, 1) IN
         (IF c \in Chars(UpperCase)
          THEN LET i == CHOOSE k \in 1..Len(UpperCase) : SubSeq(UpperCase, k, k) = c
               IN SubSeq(LowerCase, i, i)
          ELSE c) \o ToLowerStr(SubSeq(s, 2, Len(s)))

\* faulty variant: a model name already merged keeps its model
RECURSIVE MergeModelsFirstWins(_, _, _)
MergeModelsFirstWins(all, models, i) ==
    IF i > Len(models) THEN all
    ELSE MergeModelsFirstWins(IF MapHas(all, models[i][1]) THEN all
                              ELSE MapPut(all, models[i][1], models[i][2]),
                              models, i + 1)

\* lines 380-384: allModels[modelName] = endpoint.models[modelName]
RECURSIVE MergeModels(_, _, _)
MergeModels(all, models, i) ==
    IF i > Len(models) THEN all
    ELSE MergeModels(MapPut(all, models[i][1], models[i][2]), models, i + 1)

\* faulty variant: an operation already stored for the method is kept
RECURSIVE ProcessOperationsFirstWins(_, _, _, _, _, _)
ProcessOperationsFirstWins(methods, ops, i, path, category, endpoint) ==
    IF i > Len(ops) THEN methods
    ELSE LET op == ops[i]
             method == ToLowerStr(OrElse(op.method, "GET"))
             flatTag == getTagForCategory(category)
             htag == pathToHierTag(endpoint.resourcePath)
             finalHierTag == IF htag # "" /\ htag # flatTag THEN Some(htag) ELSE Absent
         IN ProcessOperationsFirstWins(
                IF MapHas(methods, method) THEN methods
                ELSE MapPut(methods, method,
                            convertOperation(op, path, method, Some(flatTag), finalHierTag)),
                ops, i + 1, path, category, endpoint)

\* lines 414-426: api.operations.forEach from the i-th operation on
RECURSIVE ProcessOperations(_, _, _, _, _, _)
ProcessOperations(methods, ops, i, path, category, endpoint) ==
    IF i > Len(ops) THEN methods
    ELSE LET op == ops[i]
             method == ToLowerStr(OrElse(op.method, "GET"))
             flatTag == getTagForCategory(category)
             htag == pathToHierTag(endpoint.resourcePath)
             finalHierTag == IF htag # "" /\ htag # flatTag THEN Some(htag) ELSE Absent
         IN ProcessOperations(
                MapPut(methods, method,
                       convertOperation(op, path, method, Some(flatTag), finalHierTag)),
                ops, i + 1, path, category, endpoint)

\* faulty variant: the guard of line 403 tests the operations only
ApiAcceptedNoPathTest(api) == Has(api.operations)

\* line 403: if (api.path && api.operations)
ApiAccepted(api) == Truthy(api.path) /\ Has(api.operations)

\* lines 404-426 for an accepted api entry
ProcessApi(dp, api, endpoint) ==
    LET path == Val(api.path)
        category == categorizePath(path)
        paths == IF MapHas(dp, category) THEN MapGet(dp, category) ELSE <<>>
        methods == IF MapHas(paths, path) THEN MapGet(paths, path) ELSE <<>>
    IN MapPut(dp, category,
              MapPut(paths, path,
                     ProcessOperations(methods, Val(api.operations), 1, path, category,
                                       endpoint)))

\* lines 402-428: endpoint.apis.forEach from the i-th entry on.  An entry
\* that is not accepted is passed over; categorizePath of an undefined path
\* would raise a TypeError (threw), which ends the fold.
RECURSIVE ProcessApis(_, _, _, _)
ProcessApis(dp, apis, i, endpoint) ==
    IF i > Len(apis) THEN [threw |-> FALSE, domainPaths |-> dp]
    ELSE IF ~ApiAccepted(apis[i]) THEN ProcessApis(dp, apis, i + 1, endpoint)
    ELSE IF ~Has(apis[i].path) THEN [threw |-> TRUE, domainPaths |-> dp]
    ELSE ProcessApis(ProcessApi(dp, apis[i], endpoint), apis, i + 1, endpoint)

\* Array.prototype.sort on strings (order of the UTF-16 code units, ASCII)
\* (the characters that occur in categories and paths)
Ascii ==
    " #$%&()*+,-./0123456789:;<=>?@ABCDEFGHIJKLMNOPQRSTUVWXYZ_abcdefghijklmnopqrstuvwxyz{|}~"
CharRank(c) == CHOOSE i \in 1..Len(Ascii) : SubSeq(Ascii, i, i) = c
RECURSIVE StrLess(_, _)
StrLess(a, b) ==
    IF a = "" THEN b # ""
    ELSE IF b = "" THEN FALSE
    ELSE IF SubSeq(a, 1, 1) = SubSeq(b, 1, 1)
    THEN StrLess(SubSeq(a, 2, Len(a)), SubSeq(b, 2, Len(b)))
    ELSE CharRank(SubSeq(a, 1, 1)) < CharRank(SubSeq(b, 1, 1))
RECURSIVE SortStrings(_)
SortStrings(xs) ==
    IF xs = <<>> THEN <<>>
    ELSE LET rest == SortStrings(Tail(xs))
             before == {i \in 1..Len(rest) : StrLess(rest[i], Head(xs))}
         IN SubSeq(rest, 1, Cardinality(before)) \o <<Head(xs)>>
            \o SubSeq(rest, Cardinality(before) + 1, Len(rest))

----------------------------------------------------------------------------
(* generateOpenAPI: schema buckets, root document, files (lines 435-713) *)

\* faulty variant: the common test comes before the plugin test
BucketOfCommonFirst(modelName) ==
    IF \/ Includes(modelName, "Response") \/ Includes(modelName, "Request")
       \/ modelName \in {"Object", "anyMap", "integerMap"}
    THEN "common"
    ELSE IF Includes(modelName, "plugin") \/ Includes(modelName, "Plugin") THEN "plugin"
    ELSE "core"

\* lines 444-451: the bucket a model name goes to
BucketOf(modelName) ==
    IF Includes(modelName, "plugin") \/ Includes(modelName, "Plugin") THEN "plugin"
    ELSE IF \/ Includes(modelName, "Response") \/ Includes(modelName, "Request")
            \/ modelName \in {"Object", "anyMap", "integerMap"}
    THEN "common"
    ELSE "core"

\* lines 440-452 for one bucket: Object.keys(allModels).forEach from entry i on
RECURSIVE Bucket(_, _, _)
Bucket(models, bucket, i) ==
    IF i > Len(models) THEN <<>>
    ELSE (IF BucketOf(models[i][1]) = bucket
          THEN <<<<models[i][1], convertModel(models[i][2])>>>> ELSE <<>>)
         \o Bucket(models, bucket, i + 1)

\* lines 457-464: header + body.  With js-yaml the body is the fixed prefix
\* followed by the dump without its first occurrence of that prefix; the dump
\* of an empty bucket ("schemas: {}") does not contain the prefix.
SchemaFile(isFallback, header, schemas) ==
    header \o
    (IF isFallback THEN DumpSchemas(TRUE, schemas)
     ELSE IF schemas = <<>> THEN "components:\nschemas:\ncomponents:\nschemas: {}"
     ELSE DumpSchemas(FALSE, schemas))

CoreSchemasFile == "schemas/core-schemas.yaml"
PluginSchemasFile == "schemas/plugin-schemas.yaml"
CommonSchemasFile == "schemas/common-schemas.yaml"
MainFile == "openapi.yaml"
PathsFile(category) == "paths/" \o category \o ".yaml"

\* obj[key] = value for every entry, in order
RECURSIVE PutAll(_, _)
PutAll(m, entries) ==
    IF entries = <<>> THEN m
    ELSE PutAll(MapPut(m, Head(entries)[1], Head(entries)[2]), Tail(entries))

\* line 525: Object.keys(domainPaths).sort()
SortedCategories(dp) == SortStrings(MapKeys(dp))

\* lines 526-535: mainSpec.paths
MainPaths(dp) ==
    LET categories == SortedCategories(dp) IN
    PutAll(<<>>,
           Flatten([c \in 1..Len(categories) |->
               LET paths == SortStrings(MapKeys(MapGet(dp, categories[c]))) IN
               [k \in 1..Len(paths) |->
                   <<paths[k], "./paths/" \o categories[c] \o ".yaml#/paths/"
                               \o escapeJsonPointer(paths[k])>>]]))

\* lines 542-561 for one bucket
SchemaRefs(schemas, file) ==
    LET names == SortStrings(MapKeys(schemas)) IN
    [k \in 1..Len(names) |->
        <<names[k], "./" \o file \o "#/components/schemas/" \o escapeJsonPointer(names[k])>>]

\* faulty variant: every schema entry points to the core schema file
MainSchemasAllCore(core, plugin, common) ==
    PutAll(PutAll(PutAll(<<>>, SchemaRefs(core, CoreSchemasFile)),
                  SchemaRefs(plugin, CoreSchemasFile)),
           SchemaRefs(common, CoreSchemasFile))

\* lines 538-561: mainSpec.components.schemas
MainSchemas(core, plugin, common) ==
    PutAll(PutAll(PutAll(<<>>, SchemaRefs(core, CoreSchemasFile)),
                  SchemaRefs(plugin, PluginSchemasFile)),
           SchemaRefs(common, CommonSchemasFile))

\* line 663: yaml.dump(mainSpec, { quotingType: "'", forceQuotes: true })
MainRefs(isFallback, entries) ==
    Flatten([i \in 1..Len(entries) |->
        <<KeyLine(isFallback, entries[i][1]), RefLine(isFallback, entries[i][2])>>])
DumpMain(isFallback, spec) ==
    Text(<<KeyLine(isFallback, "paths")>> \o MainRefs(isFallback, spec.paths)
         \o <<KeyLine(isFallback, "components"), KeyLine(isFallback, "schemas")>>
         \o MainRefs(isFallback, spec.schemas))

\* lines 669-680: the content of the file of one category
PathFile(isFallback, dp, category) ==
    "# paths/" \o category
    \o ".yaml\n# Generated from Graylog Swagger 1.2 specification\n# Contains "
    \o ToString(Len(MapGet(dp, category))) \o " paths\n\n"
    \o DumpPaths(isFallback, MapGet(dp, category))

\* lines 668-681: categories.forEach, the files written
PathFiles(isFallback, dp) ==
    [f \in {PathsFile(MapKeys(dp)[c]) : c \in 1..Len(dp)} |->
        LET c == CHOOSE c \in 1..Len(dp) : PathsFile(MapKeys(dp)[c]) = f
        IN PathFile(isFallback, dp, MapKeys(dp)[c])]

\* faulty variant: a write appends to the file it finds (fs.appendFileSync)
AppendFiles(fs, written) ==
    [f \in DOMAIN written \cup DOMAIN fs |->
        IF f \notin DOMAIN written THEN fs[f]
        ELSE IF f \in DOMAIN fs THEN fs[f] \o written[f]
        ELSE written[f]]

\* fs.writeFileSync (lines 457-487, 661-664, 676-680): a written file
\* replaces the file of that name, the other files stay
WriteFiles(fs, written) == written @@ fs

\* lines 688-693: allFiles
AllFiles(dp) ==
    {PathsFile(MapKeys(dp)[c]) : c \in 1..Len(dp)}
    \cup {CoreSchemasFile, PluginSchemasFile, CommonSchemasFile}

\* lines 695-713: the files after the fix; a file is written back only when
\* a pattern matched (modified)
FixFiles(fs, dp) ==
    [f \in DOMAIN fs |-> IF f \in AllFiles(dp) THEN FixContent(fs[f]) ELSE fs[f]]
Modified(fs, dp) == {f \in DOMAIN fs \cap AllFiles(dp) : FixContent(fs[f]) # fs[f]}

----------------------------------------------------------------------------
(* Inputs of convertOperation *)

Methods == {"get", "post", "put", "delete"}
OpPaths == {"/streams", "/streams/{streamId}"}
OpTypes == {Absent, Some("void"), Some("any"), Some("StreamDTO")}
OpProduces == {Absent, Some(<<>>), Some(<<"application/json", "text/csv">>)}
RespCodes == {Absent, Some("200"), Some("202"), Some("204"), Some("404")}
RespTexts == {Absent, Some("Accepted")}
RespMessage == [code : RespCodes, message : RespTexts]

SeqsUpTo(S, n) == UNION {[1..k -> S] : k \in 0..n}

OpResponseMessages == {Absent} \cup {Some(s) : s \in SeqsUpTo(RespMessage, MaxMsgs)}

\* the fields the response part of convertOperation does not read are absent
Operations ==
    [ type : OpTypes, produces : OpProduces, responseMessages : OpResponseMessages,
      parameters : {Absent}, summary : {Absent}, nickname : {Absent}, notes : {Absent},
      method : {Absent} ]

----------------------------------------------------------------------------
(* convertOperation as a run: lines 196-234, then one step per entry of     *)
(* the second walk, then the return.                                       *)

InitOp ==
    /\ opIn \in [op : Operations, path : OpPaths, method : Methods]
    /\ pcOp = "input"
    /\ successCodeV = ""
    /\ responses = <<>>
    /\ walk = 0
    /\ IdleCat
    /\ IdleRun
    /\ IdleSteps
    /\ IdleCall

\* lines 196-234: choose the success code and build its response
ChooseSuccess ==
    /\ pcOp = "input"
    /\ successCodeV' = successCode(opIn.op, opIn.path, opIn.method)
    /\ responses' = InitialResponses(opIn.op, opIn.path, opIn.method)
    /\ walk' = 0
    /\ pcOp' = "merge"
    /\ UNCHANGED <<opIn, catVars, runVars, callVars, stepVars>>

\* lines 238-249: one entry of the second walk
MergeStep ==
    /\ pcOp = "merge"
    /\ walk < Len(MergeList(opIn.op))
    /\ responses' = MergeResponse(responses, MergeList(opIn.op)[walk + 1], successCodeV)
    /\ walk' = walk + 1
    /\ UNCHANGED <<opIn, pcOp, successCodeV, catVars, runVars, callVars, stepVars>>

\* line 252: return operation
ReturnOperation ==
    /\ pcOp = "merge"
    /\ walk = Len(MergeList(opIn.op))
    /\ pcOp' = "converted"
    /\ UNCHANGED <<opIn, successCodeV, responses, walk, catVars, runVars, callVars, stepVars>>

NextOp == ChooseSuccess \/ MergeStep \/ ReturnOperation

SpecOp == InitOp /\ [][NextOp]_vars

----------------------------------------------------------------------------
(* Categorization of one api.path, as generateOpenAPI does it for every    *)
(* api entry: line 404, then line 417.                                     *)

IdleOp == opIn = <<>> /\ pcOp = "idle" /\ successCodeV = "" /\ responses = <<>> /\ walk = 0

InitCatRun == InitCat /\ IdleOp /\ IdleRun /\ IdleCall /\ IdleSteps

\* line 404: const category = categorizePath(api.path)
Categorize ==
    /\ pcCat = "input"
    /\ catCategory' = categorizePath(catIn)
    /\ pcCat' = "categorized"
    /\ UNCHANGED <<catIn, catTag, opVars, runVars, callVars, stepVars>>

\* line 417: const flatTag = getTagForCategory(category)
TagCategory ==
    /\ pcCat = "categorized"
    /\ catTag' = getTagForCategory(catCategory)
    /\ pcCat' = "tagged"
    /\ UNCHANGED <<catIn, catCategory, opVars, runVars, callVars, stepVars>>

NextCat == Categorize \/ TagCategory

SpecCat == InitCatRun /\ [][NextCat]_vars

----------------------------------------------------------------------------
(* Inputs of generateOpenAPI: the descriptors of graylog-swagger-endpoints.json *)

\* most descriptors in the input file
MaxDescriptors == 2

NoOperation ==
    [ type |-> Absent, produces |-> Absent, responseMessages |-> Absent,
      parameters |-> Absent, summary |-> Absent, nickname |-> Absent, notes |-> Absent,
      method |-> Absent ]
NoParam ==
    [ paramType |-> Absent, name |-> "", description |-> Absent, required |-> Absent,
      type |-> Absent, defaultValue |-> Absent, enum |-> Absent ]
NoModel ==
    [ type |-> Absent, properties |-> Absent, required |-> Absent,
      additional_properties |-> Absent, items |-> Absent, enum |-> Absent,
      description |-> Absent ]

\* GET returning a model
GetStream == [NoOperation EXCEPT !.method = Some("GET"), !.type = Some("Stream")]
\* POST with a body of a primitive type, returning a primitive type
PostString ==
    [NoOperation EXCEPT
        !.method = Some("POST"), !.type = Some("string"),
        !.parameters =
            Some(<< [NoParam EXCEPT !.paramType = Some("body"), !.name = "body",
                                    !.type = Some("string")],
                    [NoParam EXCEPT !.paramType = Some("query"), !.name = "limit",
                                    !.type = Some("int")] >>)]
\* no method, no type
PlainOperation == NoOperation

ApiEntry(path, operations) == [path |-> path, operations |-> operations]

\* apis with two operations of one path
StreamsApis == <<ApiEntry(Some("/streams"), Some(<<GetStream, PostString>>))>>
\* apis with an entry without path, a regular one, and one with an empty path
JobsApis ==
    << ApiEntry(Absent, Some(<<GetStream>>)),
       ApiEntry(Some("/system/jobs"), Some(<<PostString>>)),
       ApiEntry(Some(""), Some(<<PlainOperation>>)) >>
\* apis with an entry without operations
ArchiveApis ==
    << ApiEntry(Some("/streams"), Some(<<PlainOperation>>)),
       ApiEntry(Some("/plugins/archive/{id}"), Absent),
       ApiEntry(Some("/plugins/archive"), Some(<<GetStream>>)) >>

\* models with references to a model, to a primitive type and to anyMap
StreamModels ==
    << <<"Stream",
         [NoModel EXCEPT !.properties =
             Some(<< <<"id", [NoProp EXCEPT !.type = Some("string")]>>,
                     <<"rule", [NoProp EXCEPT !.ref = Some("urn:jsonschema:Rule")]>>,
                     <<"title", [NoProp EXCEPT !.ref = Some("string")]>>,
                     <<"fields", [NoProp EXCEPT !.ref = Some("anyMap")]>> >>)]>> >>
\* models of the three buckets, Stream defined anew
RuleModels ==
    << <<"Rule", [NoModel EXCEPT !.description = Some("A rule")]>>,
       <<"PluginResponse",
         [NoModel EXCEPT !.type = Some("array"),
                         !.items = Some([NoProp EXCEPT !.ref = Some("urn:x:integer")])]>>,
       <<"Stream", NoModel>> >>

Descriptor(resourcePath, apis, models) ==
    [resourcePath |-> resourcePath, apis |-> apis, models |-> models]

Descriptors ==
    { Descriptor(Absent, Absent, Absent),
      Descriptor(Absent, Absent, Some(RuleModels)),
      Descriptor(Some("/streams"), Some(StreamsApis), Absent),
      Descriptor(Some("/streams"), Some(StreamsApis), Some(StreamModels)),
      Descriptor(Some("/system/jobs"), Some(JobsApis), Absent),
      Descriptor(Some("/plugins/org.graylog.plugins.archive"), Some(ArchiveApis),
                 Some(StreamModels)),
      Descriptor(Some("/plugins/org.graylog.plugins.archive"), Some(ArchiveApis),
                 Some(RuleModels)) }

----------------------------------------------------------------------------
(* generateOpenAPI as a run (lines 366-739) *)

Init ==
    /\ endpointData \in {Absent} \cup {Some(ds) : ds \in SeqsUpTo(Descriptors, MaxDescriptors)}
    /\ yamlFallback \in BOOLEAN
    /\ pc = "load"
    /\ idx = 0
    /\ domainPaths = <<>>
    /\ allModels = <<>>
    /\ coreSchemas = <<>> /\ pluginSchemas = <<>> /\ commonSchemas = <<>>
    /\ mainSpec = [paths |-> <<>>, schemas |-> <<>>]
    /\ files = <<>>
    /\ fixed = {}
    /\ exitCode = -1
    /\ runNo = 1
    /\ firstFallback = FALSE
    /\ firstFiles = <<>>
    /\ firstExit = -1
    /\ IdleOp
    /\ IdleCat
    /\ IdleCall
    /\ IdleSteps

\* line 368: the input file is read and parsed
Load ==
    /\ pc = "load"
    /\ Has(endpointData)
    /\ pc' = "fold"
    /\ idx' = 1
    /\ UNCHANGED <<endpointData, yamlFallback, domainPaths, allModels, coreSchemas,
                   pluginSchemas, commonSchemas, mainSpec, files, fixed, exitCode,
                   firstVars, opVars, catVars, callVars, stepVars>>

\* line 368 throws (no file, or not JSON); lines 736-738
LoadFails ==
    /\ pc = "load"
    /\ ~Has(endpointData)
    /\ pc' = "failed"
    /\ exitCode' = 1
    /\ UNCHANGED <<endpointData, yamlFallback, idx, domainPaths, allModels, coreSchemas,
                   pluginSchemas, commonSchemas, mainSpec, files, fixed, firstVars, opVars, catVars, callVars, stepVars>>

\* lines 378-430: one iteration of endpointData.forEach; an exception ends
\* the run in the handler of lines 736-738
ProcessEndpoint ==
    /\ pc = "fold"
    /\ idx <= Len(Val(endpointData))
    /\ LET endpoint == Val(endpointData)[idx]
           models == IF Has(endpoint.models) THEN Val(endpoint.models) ELSE <<>>
           apis == IF Has(endpoint.apis) THEN Val(endpoint.apis) ELSE <<>>
           processed == ProcessApis(domainPaths, apis, 1, endpoint)
       IN /\ allModels' = MergeModels(allModels, models, 1)
          /\ domainPaths' = processed.domainPaths
          /\ IF processed.threw
             THEN pc' = "failed" /\ exitCode' = 1 /\ idx' = idx
             ELSE pc' = "fold" /\ exitCode' = exitCode /\ idx' = idx + 1
    /\ UNCHANGED <<endpointData, yamlFallback, coreSchemas, pluginSchemas, commonSchemas,
                   mainSpec, files, fixed, firstVars, opVars, catVars, callVars, stepVars>>

\* lines 435-487: the buckets and the three schema files
GenerateSchemas ==
    /\ pc = "fold"
    /\ idx > Len(Val(endpointData))
    /\ LET core == Bucket(allModels, "core", 1)
           plugin == Bucket(allModels, "plugin", 1)
           common == Bucket(allModels, "common", 1)
       IN /\ coreSchemas' = core
          /\ pluginSchemas' = plugin
          /\ commonSchemas' = common
          /\ files' = WriteFiles(files,
               (CoreSchemasFile :>
                    SchemaFile(yamlFallback,
                               "# schemas/core-schemas.yaml\n# Core API schema definitions\n\n",
                               core))
               @@ (PluginSchemasFile :>
                    SchemaFile(yamlFallback,
                               "# schemas/plugin-schemas.yaml\n# Plugin schema definitions\n\n",
                               plugin))
               @@ (CommonSchemasFile :>
                    SchemaFile(yamlFallback,
                               "# schemas/common-schemas.yaml\n# Common/shared schema definitions\n\n",
                               common)))
    /\ pc' = "main"
    /\ UNCHANGED <<endpointData, yamlFallback, idx, domainPaths, allModels, mainSpec,
                   fixed, exitCode, firstVars, opVars, catVars, callVars, stepVars>>

\* lines 497-664: the root document is built and written
WriteMain ==
    /\ pc = "main"
    /\ mainSpec' = [paths |-> MainPaths(domainPaths),
                    schemas |-> MainSchemas(coreSchemas, pluginSchemas, commonSchemas)]
    /\ files' = WriteFiles(files, MainFile :> DumpMain(yamlFallback, mainSpec'))
    /\ pc' = "paths"
    /\ UNCHANGED <<endpointData, yamlFallback, idx, domainPaths, allModels, coreSchemas,
                   pluginSchemas, commonSchemas, fixed, exitCode, firstVars, opVars, catVars, callVars, stepVars>>

\* lines 668-681: one file per category
WritePathFiles ==
    /\ pc = "paths"
    /\ files' = WriteFiles(files, PathFiles(yamlFallback, domainPaths))
    /\ pc' = "repair"
    /\ UNCHANGED <<endpointData, yamlFallback, idx, domainPaths, allModels, coreSchemas,
                   pluginSchemas, commonSchemas, mainSpec, fixed, exitCode, firstVars, opVars, catVars, callVars, stepVars>>

\* lines 685-731: the primitive fix over allFiles, then the summary; the
\* process ends with status 0
FixPrimitiveRefs ==
    /\ pc = "repair"
    /\ files' = FixFiles(files, domainPaths)
    /\ fixed' = Modified(files, domainPaths)
    /\ pc' = "done"
    /\ exitCode' = 0
    /\ UNCHANGED <<endpointData, yamlFallback, idx, domainPaths, allModels, coreSchemas,
                   pluginSchemas, commonSchemas, mainSpec, firstVars, opVars, catVars, callVars, stepVars>>

Next ==
    \/ Load
    \/ LoadFails
    \/ ProcessEndpoint
    \/ GenerateSchemas
    \/ WriteMain
    \/ WritePathFiles
    \/ FixPrimitiveRefs

Spec == Init /\ [][Next]_vars

----------------------------------------------------------------------------
(* Two runs of generateOpenAPI over the same input file *)

\* lines 733-739 once more: the script is started again after it ended.
\* The input file and the output directory are as the first run left them;
\* the process is new (lines 371-375: its collections start empty) and
\* lines 19-27 load js-yaml again, which may or may not be installed.
Rerun ==
    /\ runNo = 1
    /\ pc \in {"done", "failed"}
    /\ runNo' = 2
    /\ firstFallback' = yamlFallback
    /\ firstFiles' = files
    /\ firstExit' = exitCode
    /\ yamlFallback' \in BOOLEAN
    /\ pc' = "load"
    /\ idx' = 0
    /\ domainPaths' = <<>>
    /\ allModels' = <<>>
    /\ coreSchemas' = <<>> /\ pluginSchemas' = <<>> /\ commonSchemas' = <<>>
    /\ mainSpec' = [paths |-> <<>>, schemas |-> <<>>]
    /\ fixed' = {}
    /\ exitCode' = -1
    /\ UNCHANGED <<endpointData, files, opVars, catVars, callVars, stepVars>>

NextTwice ==
    \/ Load
    \/ LoadFails
    \/ ProcessEndpoint
    \/ GenerateSchemas
    \/ WriteMain
    \/ WritePathFiles
    \/ FixPrimitiveRefs
    \/ Rerun

SpecTwice == Init /\ [][NextTwice]_vars

----------------------------------------------------------------------------
(* Properties of convertOperation (checked under SpecOp) *)

\* the responseMessages list of the operation being converted
InMsgs == MergeList(opIn.op)
\* the success codes the list names, as written in the source descriptor
ListedSuccess == {Val(InMsgs[i].code) : i \in {j \in 1..Len(InMsgs) : Has(InMsgs[j].code)}}
                     \cap SUCCESS_SET
\* a path segment of the form {param}
HasParamSegment(path) ==
    \E i \in 1..Len(path) : \E j \in i..Len(path) :
        /\ SubSeq(path, i, i) = "{"
        /\ i > 1 /\ SubSeq(path, i - 1, i - 1) = "/"
        /\ SubSeq(path, j, j) = "}"
        /\ (j = Len(path) \/ SubSeq(path, j + 1, j + 1) = "/")
        /\ \A k \in i..j : SubSeq(path, k, k) # "/"

\* C1 as stated: the returned responses map holds exactly one key of
\* {200, 201, 202, 204}, whatever responseMessages lists.
C1_ExactlyOneSuccessKey ==
    pcOp = "converted" => Cardinality(DOMAIN responses \cap SUCCESS_SET) = 1

\* C1 amended: exactly one success code is chosen and it is a key of the
\* returned responses map; the keys of the map among {200, 201, 202, 204} are
\* the chosen code and the success codes responseMessages lists, so there is
\* exactly one such key when responseMessages lists no other success code.
C1_ChosenPlusListedSuccessKeys ==
    pcOp = "converted" =>
        LET keys == DOMAIN responses \cap SUCCESS_SET IN
        /\ successCodeV \in keys
        /\ keys = {successCodeV} \cup ListedSuccess
        /\ (Cardinality(ListedSuccess) <= 1 => Cardinality(keys) = 1)

\* C1 witness: a converted operation whose responseMessages list two
\* different success codes, both of which are keys of the responses map.
C1_Witness ==
    /\ pcOp = "converted"
    /\ Cardinality(ListedSuccess) = 2
    /\ Cardinality(DOMAIN responses \cap SUCCESS_SET) = 2

\* C2: when responseMessages holds a code of {200, 201, 202, 204}, the chosen
\* success code is the first such code in source order, whatever the method,
\* path and type; a GET whose only entry is 202 "Accepted" gets 202 with the
\* description "Accepted" and no 200 response.
C2_FirstExplicitSuccessCode ==
    pcOp = "converted" =>
        /\ \A i \in 1..Len(InMsgs) :
              ( /\ Has(InMsgs[i].code) /\ Val(InMsgs[i].code) \in SUCCESS_SET
                /\ \A j \in 1..(i - 1) :
                      ~(Has(InMsgs[j].code) /\ Val(InMsgs[j].code) \in SUCCESS_SET) )
              => (successCodeV = Val(InMsgs[i].code) /\ successCodeV \in DOMAIN responses)
        /\ ( opIn.method = "get"
             /\ InMsgs = <<[code |-> Some("202"), message |-> Some("Accepted")]>> )
           => ( /\ successCodeV = "202"
                /\ responses["202"].description = "Accepted"
                /\ "200" \notin DOMAIN responses )

\* C2 witness: a DELETE (method default 204) whose list names 404, then 202,
\* then 200, or 404 then 202: the chosen code is 202.
C2_Witness ==
    /\ pcOp = "converted"
    /\ opIn.method = "delete"
    /\ Len(InMsgs) >= 2
    /\ InMsgs[1].code = Some("404")
    /\ InMsgs[2].code = Some("202")
    /\ successCodeV = "202"

\* C3: with responseMessages absent or naming no code of {200, 201, 202, 204},
\* the chosen code is 204 for DELETE, else 204 for PUT with type void, else
\* 201 for POST on a path without {param} segment, else 200.
C3_MethodFallback ==
    (pcOp = "converted" /\ ListedSuccess = {}) =>
        successCodeV =
            IF opIn.method = "delete" THEN "204"
            ELSE IF opIn.method = "put" /\ opIn.op.type = Some("void") THEN "204"
            ELSE IF opIn.method = "post" /\ ~HasParamSegment(opIn.path) THEN "201"
            ELSE "200"

\* C3 witness: a POST on a path with a {param} segment whose list names only
\* an error code: the fallback gives 200.
C3_Witness ==
    /\ pcOp = "converted"
    /\ opIn.method = "post"
    /\ HasParamSegment(opIn.path)
    /\ Len(InMsgs) > 0
    /\ ListedSuccess = {}
    /\ successCodeV = "200"

\* C4: the chosen success response has a content map iff the chosen code is
\* not 204 and the type is not void; the map has one entry per media type of
\* produces (application/json alone when produces is absent), each a $ref to
\* the type's schema when a type other than 'any' is declared, else an open
\* object; a DELETE without explicit success code gets 204 and no content.
C4_SuccessContent ==
    pcOp = "converted" =>
        LET r == responses[successCodeV]
            produces == opIn.op.produces
            media == IF Has(produces)
                     THEN {Val(produces)[i] : i \in 1..Len(Val(produces))}
                     ELSE {"application/json"}
            type == opIn.op.type
            schema == IF Has(type) /\ Val(type) # "any"
                      THEN [ref |-> Some("#/components/schemas/" \o Val(type)), type |-> Absent]
                      ELSE [ref |-> Absent, type |-> Some("object")]
        IN
        /\ Has(r.content) <=> (successCodeV # "204" /\ type # Some("void"))
        /\ Has(r.content) =>
              /\ DOMAIN Val(r.content) = media
              /\ \A m \in media : Val(r.content)[m] = [schema |-> schema]
        /\ (opIn.method = "delete" /\ ListedSuccess = {}) =>
              (successCodeV = "204" /\ ~Has(r.content))

\* C4 witness: an explicit 204 on an operation with a declared type has no
\* content although the type is not void.
C4_Witness ==
    /\ pcOp = "converted"
    /\ opIn.method = "get"
    /\ opIn.op.type = Some("StreamDTO")
    /\ successCodeV = "204"
    /\ ~Has(responses["204"].content)

\* C5: a step of the second walk over responseMessages changes, for an entry
\* of the chosen success code, only that response's description (to the
\* message when it is non-empty) and keeps its content; for an entry of any
\* other code it adds or replaces a response with that description and no
\* content; every other response is left as it was.
C5_SecondWalkFrame ==
    [][ (pcOp = "merge" /\ walk' = walk + 1) =>
          LET resp == InMsgs[walk']
              c == IF Has(resp.code) THEN Val(resp.code) ELSE "undefined"
              message == IF Has(resp.message) THEN Val(resp.message) ELSE ""
          IN
          /\ DOMAIN responses' = DOMAIN responses \cup {c}
          /\ \A k \in DOMAIN responses \ {c} : responses'[k] = responses[k]
          /\ IF c = successCodeV
             THEN /\ responses'[c].content = responses[c].content
                  /\ responses'[c].description =
                        IF message # "" THEN message ELSE responses[c].description
             ELSE responses'[c] = [description |-> message, content |-> Absent]
      ]_vars

\* C5 witness: the walk has merged an entry of the chosen success code that
\* carries a message: the description is the message and the content built
\* before the walk is still there.
C5_Witness ==
    /\ pcOp = "merge"
    /\ walk > 0
    /\ InMsgs[walk] = [code |-> Some(successCodeV), message |-> Some("Accepted")]
    /\ responses[successCodeV].description = "Accepted"
    /\ Has(responses[successCodeV].content)
    /\ Cardinality(DOMAIN Val(responses[successCodeV].content)) = 2

----------------------------------------------------------------------------
(* Properties of categorizePath and getTagForCategory (checked under SpecCat) *)

\* the 17 fixed categories, in the rule order of the specification
RuleCategory ==
    << "core-system", "core-streams", "core-search", "core-events", "core-users",
       "core-inputs", "core-dashboard", "plugin-archive", "plugin-security",
       "plugin-illuminate", "plugin-integrations", "plugin-datawarehouse",
       "plugin-forwarder", "plugin-license", "plugin-reports", "plugin-sidecar",
       "misc-admin" >>
Categories == {RuleCategory[i] : i \in 1..Len(RuleCategory)}

\* rules 1..16 of the specification: prefixes and keywords of each rule
RulePrefixes ==
    << {"/system/", "/cluster/"}, {"/streams"}, {"/search", "/views/search", "/messages"},
       {"/events"}, {"/users", "/roles", "/authz"}, {"/inputs"}, {"/dashboards"},
       {}, {}, {}, {}, {}, {}, {}, {}, {"/sidecar"} >>
RuleKeywords ==
    << {}, {}, {}, {}, {}, {}, {},
       {"archive"}, {"security", "investigations", "teams"}, {"illuminate", "bundles"},
       {"integrations", "aws", "azure", "crowdstrike", "okta", "mimecast"},
       {"datawarehouse", "data_warehouse"}, {"forwarder"}, {"license"}, {"report"}, {} >>
RuleMatches(i, p) ==
    \/ \E x \in RulePrefixes[i] : StartsWith(p, x)
    \/ \E k \in RuleKeywords[i] : Includes(p, k)
    \/ (i = 7 /\ StartsWith(p, "/views") /\ ~Includes(p, "search"))
MatchingRules(p) == {i \in 1..16 : RuleMatches(i, p)}
\* the number of the first rule that matches, 17 (catch-all) when none does
FirstMatch(p) ==
    IF MatchingRules(p) = {} THEN 17
    ELSE CHOOSE i \in MatchingRules(p) : \A j \in MatchingRules(p) : i <= j

\* C6: categorizePath returns one of the 17 fixed categories for every path,
\* misc-admin for a path that matches no rule, and getTagForCategory gives
\* the returned category a tag other than 'Other'.
C6_TotalCategorization ==
    /\ Cardinality(Categories) = 17
    /\ pcCat \in {"categorized", "tagged"} =>
          /\ catCategory \in Categories
          /\ (MatchingRules(catIn) = {} => catCategory = "misc-admin")
    /\ pcCat = "tagged" => (catTag # "Other" /\ catTag # "")

\* C6 witness: a path that matches no rule was put in misc-admin and tagged.
C6_Witness ==
    /\ pcCat = "tagged"
    /\ MatchingRules(catIn) = {}
    /\ catCategory = "misc-admin"
    /\ catTag = "Administration"

\* C7: categorizePath returns the category of the first matching rule in
\* the rule order 1..17; a path starting with /views/search is search,
\* /views/dashboards is dashboards, and a path matched by a core prefix rule
\* (1..7) gets a core category even when it contains a plugin keyword.
C7_FirstMatchWins ==
    pcCat \in {"categorized", "tagged"} =>
        /\ catCategory = RuleCategory[FirstMatch(catIn)]
        /\ (StartsWith(catIn, "/views/search") => catCategory = "core-search")
        /\ (catIn = "/views/dashboards" => catCategory = "core-dashboard")
        /\ ((\E i \in 1..7 : RuleMatches(i, catIn)) =>
               catCategory \in {RuleCategory[i] : i \in 1..7})

\* C7 witness: a path under /streams that also contains the keyword of the
\* archive plugin rule was categorized as streams.
C7_Witness ==
    /\ pcCat = "categorized"
    /\ {2, 8} \subseteq MatchingRules(catIn)
    /\ catCategory = "core-streams"

----------------------------------------------------------------------------
(* Properties of the primitive reference fix and of the fold (checked      *)
(* under Spec)                                                             *)

PrimitiveNames == {primitiveTypes[i] : i \in 1..Len(primitiveTypes)}
\* the names the explored descriptors refer to
ReferenceNames == PrimitiveNames \cup {"Stream", "Rule", "anyMap", "PluginResponse"}
\* the path and schema documents written so far
Documents == DOMAIN files \cap AllFiles(domainPaths)
\* the document holds a reference to the schema of that name
HasReference(content, name) ==
    Includes(content, RefLine(yamlFallback, "#/components/schemas/" \o name))
\* the content the document was written with, before the fix
Written(f) ==
    IF f = CoreSchemasFile
    THEN SchemaFile(yamlFallback,
                    "# schemas/core-schemas.yaml\n# Core API schema definitions\n\n",
                    coreSchemas)
    ELSE IF f = PluginSchemasFile
    THEN SchemaFile(yamlFallback,
                    "# schemas/plugin-schemas.yaml\n# Plugin schema definitions\n\n",
                    pluginSchemas)
    ELSE IF f = CommonSchemasFile
    THEN SchemaFile(yamlFallback,
                    "# schemas/common-schemas.yaml\n# Common/shared schema definitions\n\n",
                    commonSchemas)
    ELSE PathFiles(yamlFallback, domainPaths)[f]

C9_FixIdempotent ==
    \A f \in DOMAIN files : FixContent(FixContent(files[f])) = FixContent(files[f])

\* the fix has run and rewrote a document
C9_Witness ==
    /\ pc = "done" /\ fixed # {}
    /\ \E f \in fixed : files[f] # Written(f) /\ FixContent(files[f]) = files[f]

\* some apis entry of the input has no path (absent or empty)
HasPathlessEntry ==
    /\ Has(endpointData)
    /\ \E d \in 1..Len(Val(endpointData)) :
         LET endpoint == Val(endpointData)[d] IN
         /\ Has(endpoint.apis)
         /\ \E a \in 1..Len(Val(endpoint.apis)) : ~Truthy(Val(endpoint.apis)[a].path)
\* the paths of the entries that have a path and operations, in the first n descriptors
EntryPaths(n) ==
    {Val(api.path) : api \in
        {api \in UNION {{Val(Val(endpointData)[d].apis)[a] :
                            a \in 1..Len(Val(Val(endpointData)[d].apis))} :
                        d \in {d \in 1..n : Has(Val(endpointData)[d].apis)}} :
            Truthy(api.path) /\ Has(api.operations)}}
\* the paths the fold has stored
StoredPaths ==
    UNION {{domainPaths[c][2][k][1] : k \in 1..Len(domainPaths[c][2])} :
           c \in 1..Len(domainPaths)}

\* C10 as stated: a run whose input has an apis entry without path ends as a
\* failure and writes no document.
C10_PathlessEntryAborts ==
    HasPathlessEntry => (DOMAIN files = {} /\ exitCode # 0)

\* C10 amended: an apis entry without path is passed over together with its
\* operations and the run goes on: it never fails, the entries that have a
\* path and operations are all stored, none else is, and the run ends with
\* status 0 and the root document and the schema documents written.
C10_PathlessEntrySkipped ==
    HasPathlessEntry =>
        /\ pc # "failed" /\ exitCode # 1
        /\ pc = "fold" => StoredPaths = EntryPaths(idx - 1)
        /\ pc \in {"main", "paths", "repair", "done"} =>
               StoredPaths = EntryPaths(Len(Val(endpointData)))
        /\ pc = "done" =>
               /\ exitCode = 0
               /\ {MainFile, CoreSchemasFile, PluginSchemasFile, CommonSchemasFile}
                      \subseteq DOMAIN files
               /\ \A c \in 1..Len(domainPaths) : PathsFile(domainPaths[c][1]) \in DOMAIN files

\* a finished run over an input with an entry without path, where the entry
\* that follows it was stored
C10_Witness ==
    /\ HasPathlessEntry
    /\ pc = "done" /\ exitCode = 0
    /\ "/system/jobs" \in StoredPaths
    /\ PathsFile("core-system") \in DOMAIN files

----------------------------------------------------------------------------
(* Properties of the fold: operations and models (checked under Spec) *)

\* the descriptors the fold has gone through
Folded ==
    IF ~Has(endpointData) \/ pc = "load" THEN 0
    ELSE IF pc \in {"fold", "failed"} THEN idx - 1
    ELSE Len(Val(endpointData))
\* the operation descriptors of the first n descriptors that sit in an apis
\* entry with a path and operations, by position: descriptor, entry, operation
OpEntries(n) ==
    {e \in UNION {UNION {{[d |-> d, a |-> a, o |-> o] :
                             o \in 1..(IF Has(Val(Val(endpointData)[d].apis)[a].operations)
                                       THEN Len(Val(Val(Val(endpointData)[d].apis)[a].operations))
                                       ELSE 0)} :
                         a \in 1..Len(Val(Val(endpointData)[d].apis))} :
                  d \in {d \in 1..n : Has(Val(endpointData)[d].apis)}} :
        Truthy(Val(Val(endpointData)[e.d].apis)[e.a].path)}
EntryApi(e) == Val(Val(endpointData)[e.d].apis)[e.a]
EntryOp(e) == Val(EntryApi(e).operations)[e.o]
\* the (category, path, method) triple of an operation descriptor
Triple(e) ==
    << categorizePath(Val(EntryApi(e).path)), Val(EntryApi(e).path),
       ToLowerStr(OrElse(EntryOp(e).method, "GET")) >>
\* input order
Earlier(e1, e2) ==
    \/ e1.d < e2.d
    \/ e1.d = e2.d /\ e1.a < e2.a
    \/ e1.d = e2.d /\ e1.a = e2.a /\ e1.o < e2.o
\* the conversion of an operation descriptor in its descriptor
Conversion(e) ==
    LET t == Triple(e)
        flatTag == getTagForCategory(t[1])
        htag == pathToHierTag(Val(endpointData)[e.d].resourcePath)
    IN convertOperation(EntryOp(e), t[2], t[3], Some(flatTag),
                        IF htag # "" /\ htag # flatTag THEN Some(htag) ELSE Absent)
\* the triples that have an operation stored, and that operation
StoredTriples ==
    UNION {UNION {{<<domainPaths[c][1], domainPaths[c][2][k][1], domainPaths[c][2][k][2][m][1]>> :
                      m \in 1..Len(domainPaths[c][2][k][2])} :
                  k \in 1..Len(domainPaths[c][2])} :
           c \in 1..Len(domainPaths)}
Stored(t) == MapGet(MapGet(MapGet(domainPaths, t[1]), t[2]), t[3])

\* C11: after the fold of any number of descriptors, the triples that have
\* an operation stored are those of the operation descriptors folded, and
\* the operation stored for a triple is the conversion of the last of them,
\* in input order, that has the triple.
C11_LastOperationOfTripleStored ==
    Has(endpointData) =>
        /\ StoredTriples = {Triple(e) : e \in OpEntries(Folded)}
        /\ \A e \in OpEntries(Folded) :
               (\A e2 \in OpEntries(Folded) : Triple(e2) = Triple(e) => ~Earlier(e, e2))
                   => Stored(Triple(e)) = Conversion(e)

\* two operation descriptors of one triple with different conversions were
\* folded, next to an operation of another triple
C11_Witness ==
    /\ pc = "done"
    /\ \E e1, e2 \in OpEntries(Folded) :
           /\ Earlier(e1, e2) /\ Triple(e1) = Triple(e2)
           /\ Conversion(e1) # Conversion(e2)
           /\ Stored(Triple(e2)) = Conversion(e2)
    /\ Cardinality(StoredTriples) > 1

\* the descriptors among the first n that define the model name
Defining(name, n) ==
    {d \in 1..n : /\ Has(Val(endpointData)[d].models)
                  /\ MapHas(Val(Val(endpointData)[d].models), name)}
\* the model names the first n descriptors define
DefinedNames(n) ==
    UNION {{Val(Val(endpointData)[d].models)[k][1] :
               k \in 1..Len(Val(Val(endpointData)[d].models))} :
           d \in {d \in 1..n : Has(Val(endpointData)[d].models)}}
Greatest(S) == CHOOSE i \in S : \A j \in S : j <= i

\* C12: after the fold of any number of descriptors, the merged model map
\* holds every model name defined so far exactly once and no other, bound to
\* the model of the last descriptor, in input order, that defines it, and
\* the run has not failed.
C12_LastModelOfNameMerged ==
    Has(endpointData) =>
        /\ pc # "failed"
        /\ \A i, j \in 1..Len(allModels) : allModels[i][1] = allModels[j][1] => i = j
        /\ {allModels[i][1] : i \in 1..Len(allModels)} = DefinedNames(Folded)
        /\ \A name \in DefinedNames(Folded) :
               MapGet(allModels, name) =
                   MapGet(Val(Val(endpointData)[Greatest(Defining(name, Folded))].models), name)

\* a finished run where two descriptors define one name with different models
C12_Witness ==
    /\ pc = "done" /\ exitCode = 0
    /\ \E name \in DefinedNames(Folded) : \E d1, d2 \in Defining(name, Folded) :
           /\ d1 < d2
           /\ MapGet(Val(Val(endpointData)[d1].models), name)
                  # MapGet(Val(Val(endpointData)[d2].models), name)
           /\ MapGet(allModels, name) = MapGet(Val(Val(endpointData)[d2].models), name)

----------------------------------------------------------------------------
(* Properties of the schema buckets and of the root document (checked      *)
(* under Spec)                                                             *)

\* the buckets have been filled
Bucketed == pc \in {"main", "paths", "repair", "done"}
Names(schemas) == {schemas[i][1] : i \in 1..Len(schemas)}

\* C13: once filled, the core, plugin and common buckets partition the
\* merged model names: they are pairwise disjoint and their union is the
\* set of merged names; a name containing 'plugin' or 'Plugin' is in the
\* plugin bucket, also when it contains 'Response' or 'Request'.
C13_BucketsPartitionModels ==
    Bucketed =>
        /\ Names(coreSchemas) \cap Names(pluginSchemas) = {}
        /\ Names(coreSchemas) \cap Names(commonSchemas) = {}
        /\ Names(pluginSchemas) \cap Names(commonSchemas) = {}
        /\ Names(coreSchemas) \cup Names(pluginSchemas) \cup Names(commonSchemas)
               = Names(allModels)
        /\ \A name \in Names(allModels) :
               (Includes(name, "plugin") \/ Includes(name, "Plugin"))
                   => name \in Names(pluginSchemas)

\* a name with both 'Plugin' and 'Response' was bucketed, next to a core name
C13_Witness ==
    /\ pc = "done"
    /\ "PluginResponse" \in Names(pluginSchemas)
    /\ Names(coreSchemas) # {}

----------------------------------------------------------------------------
(* Calls of single functions of the converter on inputs of their own *)

\* longest op.parameters list
MaxParams == 3

\* arguments of convertParameter
ParamDescriptors ==
    [ paramType : {Absent, Some("path"), Some("query"), Some("header"), Some("body"),
                   Some("form"), Some("")},
      name : {"id"},
      description : {Absent, Some("The id")},
      required : {Absent, Some(TRUE), Some(FALSE)},
      type : {Absent, Some("long"), Some("StreamDTO")},
      defaultValue : {Absent},
      enum : {Absent} ]

Param(paramType, name, required, type) ==
    [NoParam EXCEPT !.paramType = paramType, !.name = name, !.required = required,
                    !.type = type]
\* entries of op.parameters, each name with one paramType
OperationParams ==
    { Param(Some("body"), "stream", Some(TRUE), Some("StreamDTO")),
      Param(Some("body"), "anything", Absent, Some("any")),
      Param(Some("body"), "untyped", Some(FALSE), Absent),
      Param(Some("path"), "id", Some(TRUE), Some("long")),
      Param(Some("query"), "limit", Absent, Absent),
      Param(Some("query"), "offset", Some(FALSE), Some("int")),
      Param(Some("header"), "token", Some(TRUE), Some("string")),
      Param(Some("form"), "file", Absent, Some("double")),
      Param(Absent, "other", Some(TRUE), Absent) }
\* arguments of convertOperation: operations that differ in their parameters
ParamOperations ==
    { [NoOperation EXCEPT !.parameters = ps] :
        ps \in {Absent} \cup {Some(l) : l \in SeqsUpTo(OperationParams, MaxParams)} }

\* longest path string handed to escapeJsonPointer
MaxPathLen == 4
\* the characters of those strings: the escaped ones, those of the escapes, another
PathChars == {"~", "/", "0", "1", "a"}
RECURSIVE StringsOfLen(_, _)
StringsOfLen(chars, n) ==
    IF n = 0 THEN {""}
    ELSE {c \o str : c \in chars, str \in StringsOfLen(chars, n - 1)}
PointerPaths == UNION {StringsOfLen(PathChars, n) : n \in 0..MaxPathLen}

\* deepest nesting of property descriptors below a model's own
MaxDepth == 1
\* description of a descriptor: none, a text, the empty text
Descriptions == {Absent, Some("About it"), Some("")}
\* property descriptors of the four shapes, nested up to depth n
RECURSIVE PropertyDescriptors(_)
PropertyDescriptors(n) ==
    LET shapes ==
          { [NoProp EXCEPT !.ref = Some("urn:jsonschema:Rule")],
            [NoProp EXCEPT !.type = Some("long")],
            [NoProp EXCEPT !.type = Some("array")],
            NoProp }
          \cup (IF n = 0 THEN {}
                ELSE LET nested == PropertyDescriptors(n - 1) IN
                     {[NoProp EXCEPT !.type = Some("array"), !.items = Some(x)] : x \in nested}
                     \cup {[NoProp EXCEPT !.type = Some("object"),
                                          !.properties = Some(<<<<"part", x>>>>)] :
                              x \in nested}
                     \cup {[NoProp EXCEPT !.additional_properties = Some(x)] : x \in nested})
    IN {[shape EXCEPT !.description = d] : shape \in shapes, d \in Descriptions}
\* arguments of convertModel
ModelDescriptors ==
    LET nested == PropertyDescriptors(MaxDepth)
        shapes ==
          {[NoModel EXCEPT !.properties = Some(<<<<"part", x>>>>)] : x \in nested}
          \cup {[NoModel EXCEPT !.type = Some("array"), !.items = Some(x)] : x \in nested}
          \cup {[NoModel EXCEPT !.additional_properties =
                                  Some([form |-> "object", name |-> "", prop |-> x])] :
                   x \in nested}
          \cup {[NoModel EXCEPT !.additional_properties =
                                  Some([form |-> "string", name |-> "string", prop |-> NoProp])],
                [NoModel EXCEPT !.additional_properties =
                                  Some([form |-> "other", name |-> "", prop |-> NoProp])]}
    IN {[shape EXCEPT !.description = d] : shape \in shapes, d \in Descriptions}

\* most segments of a resource path handed to pathToHierTag
MaxSegments == 2
\* segments: lower case, dotted, all caps, of several words, empty
Segments ==
    {"system", "inputs", "org.graylog.security", "API", "S3", "event-definitions",
     "search_types", ""}
\* arguments of pathToHierTag: no path, or '/' followed by the segments
\* joined with '/'
SegmentLists == {Absent} \cup {Some(l) : l \in SeqsUpTo(Segments, MaxSegments)}
ResourcePathOf(segments) ==
    IF Has(segments) THEN Some("/" \o Join(Val(segments), "/")) ELSE Absent
\* resourcePath of a descriptor and api.path of one of its entries
TagResourcePaths ==
    {Absent, Some(""), Some("/"), Some("/streams"), Some("/system"), Some("/system/inputs"),
     Some("/archive-plugin"), Some("/plugins/org.graylog.plugins.archive")}
TagPaths == {"/streams", "/system/inputs", "/plugins/archive", "/other"}

InitCall ==
    /\ \/ callFn = "convertParameter" /\ callIn \in ParamDescriptors
       \/ callFn = "pathToHierTag" /\ callIn \in SegmentLists
       \/ /\ callFn = "operations.forEach"
          /\ callIn \in [endpoint : [resourcePath : TagResourcePaths], path : TagPaths,
                         operations : {<<PlainOperation>>, <<GetStream, PostString>>}]
       \/ callFn = "convertModel" /\ callIn \in ModelDescriptors
       \/ callFn = "escapeJsonPointer" /\ callIn \in PointerPaths
       \/ /\ callFn = "convertOperation"
          /\ callIn \in [op : ParamOperations, path : {"/streams"}, method : {"post"},
                         flatTag : {Some("Streams")}, hierTag : {Absent}]
    /\ pcCall = "called"
    /\ callOut = <<>>
    /\ IdleOp
    /\ IdleCat
    /\ IdleRun
    /\ IdleSteps

\* convertParameter(param), lines 96-125
CallConvertParameter ==
    /\ pcCall = "called" /\ callFn = "convertParameter"
    /\ callOut' = convertParameter(callIn)
    /\ pcCall' = "returned"
    /\ UNCHANGED <<callFn, callIn, opVars, catVars, runVars, stepVars>>

\* convertOperation(op, path, method, flatTag, hierTag), lines 147-253
CallConvertOperation ==
    /\ pcCall = "called" /\ callFn = "convertOperation"
    /\ callOut' = convertOperation(callIn.op, callIn.path, callIn.method, callIn.flatTag,
                                   callIn.hierTag)
    /\ pcCall' = "returned"
    /\ UNCHANGED <<callFn, callIn, opVars, catVars, runVars, stepVars>>

\* escapeJsonPointer(path), lines 493-495
CallEscapeJsonPointer ==
    /\ pcCall = "called" /\ callFn = "escapeJsonPointer"
    /\ callOut' = escapeJsonPointer(callIn)
    /\ pcCall' = "returned"
    /\ UNCHANGED <<callFn, callIn, opVars, catVars, runVars, stepVars>>

\* convertModel(model), lines 281-317
CallConvertModel ==
    /\ pcCall = "called" /\ callFn = "convertModel"
    /\ callOut' = convertModel(callIn)
    /\ pcCall' = "returned"
    /\ UNCHANGED <<callFn, callIn, opVars, catVars, runVars, stepVars>>

\* pathToHierTag(resourcePath), lines 47-51
CallPathToHierTag ==
    /\ pcCall = "called" /\ callFn = "pathToHierTag"
    /\ callOut' = pathToHierTag(ResourcePathOf(callIn))
    /\ pcCall' = "returned"
    /\ UNCHANGED <<callFn, callIn, opVars, catVars, runVars, stepVars>>

\* lines 404-426 for one api entry of a descriptor: its operations stored
\* by method
CallOperationsForEach ==
    /\ pcCall = "called" /\ callFn = "operations.forEach"
    /\ callOut' = ProcessOperations(<<>>, callIn.operations, 1, callIn.path,
                                    categorizePath(callIn.path), callIn.endpoint)
    /\ pcCall' = "returned"
    /\ UNCHANGED <<callFn, callIn, opVars, catVars, runVars, stepVars>>

NextCall ==
    \/ CallConvertParameter
    \/ CallPathToHierTag
    \/ CallOperationsForEach
    \/ CallConvertModel
    \/ CallEscapeJsonPointer
    \/ CallConvertOperation

SpecCall == InitCall /\ [][NextCall]_vars

----------------------------------------------------------------------------
(* Properties of convertOperation's parameters and of convertParameter     *)
(* (checked under SpecCall)                                                *)

Returned(fn) == callFn = fn /\ pcCall = "returned"
\* op.parameters of the operation converted
ParamsIn == IF Has(callIn.op.parameters) THEN Val(callIn.op.parameters) ELSE <<>>
IsBody(param) == param.paramType = Some("body")
BodyAt == {i \in 1..Len(ParamsIn) : IsBody(ParamsIn[i])}
NonBody == SelectSeq(ParamsIn, LAMBDA param : ~IsBody(param))
\* the parameters array of the converted operation, empty when there is none
ParamsOut == IF Has(callOut.parameters) THEN Val(callOut.parameters) ELSE <<>>

\* C14: when op.parameters has a body parameter, the operation has a
\* requestBody whose required flag is that parameter's (false when absent)
\* and whose application/json schema is a reference to the parameter's type,
\* or an open object when the type is 'any' or absent; the parameters array
\* holds the non-body parameters in source order and no body parameter.
C14_BodyParameterBecomesRequestBody ==
    Returned("convertOperation") =>
        /\ BodyAt # {} =>
             LET bodyParam == ParamsIn[Least(BodyAt)]
                 requestBody == Val(callOut.requestBody)
             IN /\ Has(callOut.requestBody)
                /\ requestBody.required = (bodyParam.required = Some(TRUE))
                /\ DOMAIN requestBody.content = {"application/json"}
                /\ requestBody.content["application/json"].schema =
                       IF bodyParam.type \in {Absent, Some("any")}
                       THEN [ref |-> Absent, type |-> Some("object")]
                       ELSE [ref |-> Some("#/components/schemas/" \o Val(bodyParam.type)),
                             type |-> Absent]
        /\ [i \in 1..Len(ParamsOut) |-> ParamsOut[i].name]
               = [i \in 1..Len(NonBody) |-> NonBody[i].name]
        /\ \A i \in 1..Len(ParamsOut) : \A b \in BodyAt : ParamsOut[i].name # ParamsIn[b].name

\* a required body parameter between two non-body parameters was converted
C14_Witness ==
    /\ Returned("convertOperation")
    /\ Len(ParamsIn) = 3 /\ BodyAt = {2}
    /\ ParamsIn[2].required = Some(TRUE)
    /\ Val(callOut.requestBody).required
    /\ Len(ParamsOut) = 2 /\ ParamsOut[1].name # ParamsOut[2].name

\* C15: convertParameter returns nothing for paramType 'body'; otherwise
\* 'in' is the paramType when that is path, query or header and query for
\* every other one, unknown, empty or absent, and 'required' is the
\* parameter's flag, false when absent.
C15_ParameterLocationAndRequired ==
    Returned("convertParameter") =>
        IF callIn.paramType = Some("body") THEN ~Has(callOut)
        ELSE /\ Has(callOut)
             /\ Val(callOut).in =
                    IF callIn.paramType \in {Some("path"), Some("query"), Some("header")}
                    THEN Val(callIn.paramType) ELSE "query"
             /\ Val(callOut).required = (callIn.required = Some(TRUE))

\* a parameter of an unknown paramType and without required flag was converted
C15_Witness ==
    /\ Returned("convertParameter")
    /\ callIn.paramType = Some("form") /\ callIn.required = Absent
    /\ Val(callOut).in = "query" /\ ~Val(callOut).required

----------------------------------------------------------------------------
(* Properties of escapeJsonPointer (checked under SpecCall) *)

\* str with every occurrence of the pattern, from the left, replaced
RECURSIVE ReplaceAll(_, _, _)
ReplaceAll(str, pattern, by) ==
    IF Len(str) < Len(pattern) THEN str
    ELSE IF SubSeq(str, 1, Len(pattern)) = pattern
    THEN by \o ReplaceAll(SubSeq(str, Len(pattern) + 1, Len(str)), pattern, by)
    ELSE SubSeq(str, 1, 1) \o ReplaceAll(SubSeq(str, 2, Len(str)), pattern, by)
\* JSON pointer unescaping: '~1' to '/', then '~0' to '~'
Unescape(str) == ReplaceAll(ReplaceAll(str, "~1", "/"), "~0", "~")
Occurrences(str, c) == Cardinality({i \in 1..Len(str) : SubSeq(str, i, i) = c})

\* C17: the escaped path holds no '/', each of its '~' starts a '~0' or a
\* '~1', one for every '~' and '/' of the path, and unescaping it ('~1' to
\* '/', then '~0' to '~') gives back the path, so that two paths never have
\* the same escaped form.
C17_EscapeRoundTrip ==
    Returned("escapeJsonPointer") =>
        /\ Unescape(callOut) = callIn
        /\ Occurrences(callOut, "/") = 0
        /\ \A i \in 1..Len(callOut) :
               SubSeq(callOut, i, i) = "~" => SubSeq(callOut, i + 1, i + 1) \in {"0", "1"}
        /\ Len(callOut) = Len(callIn) + Occurrences(callIn, "~") + Occurrences(callIn, "/")

\* a path with a literal '~1' and a '/' was escaped
C17_Witness ==
    /\ Returned("escapeJsonPointer")
    /\ callIn = "/~1a"
    /\ callOut = "~1~01a"

----------------------------------------------------------------------------
(* Properties of the root document (checked under Spec) *)

\* an indirection './<file>#<pointer>' of the root document: its file and
\* the key its pointer, of the form <prefix><escaped key>, leads to
TargetFile(ref) == SubSeq(Split(ref, {"#"})[1], 3, Len(Split(ref, {"#"})[1]))
TargetKey(ref, prefix) ==
    LET pointer == Split(ref, {"#"})[2] IN
    IF StartsWith(pointer, prefix)
    THEN Some(Unescape(SubSeq(pointer, Len(prefix) + 1, Len(pointer))))
    ELSE Absent
\* the bucket files that hold a schema of that name
BucketFilesOf(name) ==
    {f \in {CoreSchemasFile, PluginSchemasFile, CommonSchemasFile} :
        name \in Names(IF f = CoreSchemasFile THEN coreSchemas
                       ELSE IF f = PluginSchemasFile THEN pluginSchemas
                       ELSE commonSchemas)}

\* C16: once all documents are written, the root document has one entry for
\* every path of the category documents and one for every merged model name,
\* and no other; a path entry points to the written file of the category
\* categorizePath gives the path, at that path, which that category
\* defines; a schema entry points to the written file of the one bucket that
\* holds the schema, at that name.
C16_RootIndirections ==
    pc \in {"repair", "done"} =>
        /\ \A i, j \in 1..Len(mainSpec.paths) :
               mainSpec.paths[i][1] = mainSpec.paths[j][1] => i = j
        /\ Names(mainSpec.paths) = StoredPaths
        /\ \A i \in 1..Len(mainSpec.paths) :
               LET path == mainSpec.paths[i][1]
                   ref == mainSpec.paths[i][2]
                   category == categorizePath(path)
               IN /\ TargetFile(ref) = PathsFile(category)
                  /\ TargetFile(ref) \in DOMAIN files
                  /\ TargetKey(ref, "/paths/") = Some(path)
                  /\ MapHas(domainPaths, category)
                  /\ MapHas(MapGet(domainPaths, category), path)
        /\ \A i, j \in 1..Len(mainSpec.schemas) :
               mainSpec.schemas[i][1] = mainSpec.schemas[j][1] => i = j
        /\ Names(mainSpec.schemas) = Names(allModels)
        /\ \A i \in 1..Len(mainSpec.schemas) :
               LET name == mainSpec.schemas[i][1]
                   ref == mainSpec.schemas[i][2]
               IN /\ BucketFilesOf(name) = {TargetFile(ref)}
                  /\ TargetFile(ref) \in DOMAIN files
                  /\ TargetKey(ref, "/components/schemas/") = Some(name)

\* a finished run with paths of two categories and schemas of two buckets
C16_Witness ==
    /\ pc = "done"
    /\ Len(domainPaths) > 1
    /\ Cardinality({TargetFile(mainSpec.paths[i][2]) : i \in 1..Len(mainSpec.paths)}) > 1
    /\ Cardinality({TargetFile(mainSpec.schemas[i][2]) : i \in 1..Len(mainSpec.schemas)}) > 1

----------------------------------------------------------------------------
(* Properties of convertModel and convertProperty (checked under SpecCall) *)

\* the description of the descriptor is on the schema when it is not empty,
\* and the schema has none otherwise
NonEmptyDescription(descriptor, schema) ==
    schema.description =
        IF Truthy(descriptor.description) THEN descriptor.description ELSE Absent
\* ... at the level of the property descriptor and at every level below it
\* that the schema has
RECURSIVE CarriedBelow(_, _)
CarriedBelow(prop, schema) ==
    /\ NonEmptyDescription(prop, schema)
    /\ (Has(schema.items) /\ Has(prop.items))
           => CarriedBelow(Val(prop.items), Val(schema.items))
    /\ Has(schema.properties) =>
           \A i \in 1..Len(Val(schema.properties)) :
               CarriedBelow(Val(prop.properties)[i][2], Val(schema.properties)[i][2])
    /\ (Has(schema.additionalProperties) /\ Has(prop.additional_properties))
           => CarriedBelow(Val(prop.additional_properties),
                           Val(schema.additionalProperties).schema)
\* ... at every level below the model
CarriedBelowModel(model, schema) ==
    /\ Has(schema.properties) =>
           \A i \in 1..Len(Val(schema.properties)) :
               CarriedBelow(Val(model.properties)[i][2], Val(schema.properties)[i][2])
    /\ Has(schema.items) => CarriedBelow(Val(model.items), Val(schema.items))
    /\ (Has(schema.additionalProperties) /\ Val(model.additional_properties).form = "object")
           => CarriedBelow(Val(model.additional_properties).prop,
                           Val(schema.additionalProperties).schema)

\* C18 as stated: a description on the model or on a descriptor nested in
\* it is on the converted schema of that level.
C18_DescriptionCarriedAtEveryLevel ==
    Returned("convertModel") =>
        /\ Truthy(callIn.description) => callOut.description = callIn.description
        /\ CarriedBelowModel(callIn, callOut)

\* C18 amended: a non-empty description of a property, array item or
\* additional-properties descriptor nested in the model, of whichever
\* shape, is on the converted schema of that level, and an absent or empty
\* one gives none; the schema of the model itself never has a description.
C18_DescriptionCarriedBelowModel ==
    Returned("convertModel") =>
        /\ ~Has(callOut.description)
        /\ CarriedBelowModel(callIn, callOut)

\* a model with a description, a described array property and a described
\* reference item in it was converted
C18_Witness ==
    /\ Returned("convertModel")
    /\ callIn.description = Some("About it")
    /\ Has(callOut.properties)
    /\ LET part == Val(callOut.properties)[1][2] IN
       /\ part.description = Some("About it")
       /\ Has(part.items)
       /\ Has(Val(part.items).ref)
       /\ Val(part.items).description = Some("About it")

----------------------------------------------------------------------------
(* Properties of the tags (checked under SpecCall) *)

\* the flat tags of the categories, as the table of getTagForCategory has them
FlatTagOfPath ==
    "/streams" :> "Streams" @@ "/system/inputs" :> "System"
    @@ "/plugins/archive" :> "Archive Plugin" @@ "/other" :> "Administration"
\* the hierarchical tags of the resource paths
HierTagOfResourcePath ==
    Absent :> "" @@ Some("") :> "" @@ Some("/") :> "" @@ Some("/streams") :> "Streams"
    @@ Some("/system") :> "System" @@ Some("/system/inputs") :> "System/Inputs"
    @@ Some("/archive-plugin") :> "Archive Plugin"
    @@ Some("/plugins/org.graylog.plugins.archive") :> "Plugins/org.graylog.plugins.archive"

\* C19: the tags of every operation stored for an api entry are the flat
\* tag of the path's category, followed by the hierarchical tag of the
\* descriptor's resourcePath exactly when that tag is not empty and is not
\* the flat tag: one or two tags, never the same twice.
C19_FlatTagThenHierarchicalTag ==
    Returned("operations.forEach") =>
        \A m \in 1..Len(callOut) :
            LET tags == callOut[m][2].tags
                flat == FlatTagOfPath[callIn.path]
                hier == HierTagOfResourcePath[callIn.endpoint.resourcePath]
            IN /\ Len(tags) \in {1, 2}
               /\ tags[1] = flat
               /\ Len(tags) = 2 <=> (hier # "" /\ hier # flat)
               /\ Len(tags) = 2 => (tags[2] = hier /\ tags[2] # tags[1])

\* two operations of a resource path whose hierarchical tag is not the flat
\* tag were stored
C19_Witness ==
    /\ Returned("operations.forEach")
    /\ Len(callOut) = 2
    /\ callIn.endpoint.resourcePath = Some("/system/inputs")
    /\ callOut[1][2].tags = <<"System", "System/Inputs">>
    /\ callOut[2][2].tags = <<"System", "System/Inputs">>

\* the title of each segment
TitleOfSegment ==
    "system" :> "System" @@ "inputs" :> "Inputs"
    @@ "org.graylog.security" :> "org.graylog.security" @@ "API" :> "API" @@ "S3" :> "S3"
    @@ "event-definitions" :> "Event Definitions" @@ "search_types" :> "Search Types"

\* C20: the hierarchical tag of a resource path is the titles of its
\* non-empty segments joined with '/', '' when there is no path or no such
\* segment: a lower-case segment is capitalized, a segment with a dot and an
\* all-caps segment are kept as they are.
C20_HierTagOfSegments ==
    Returned("pathToHierTag") =>
        LET segments == IF Has(callIn) THEN SelectSeq(Val(callIn), LAMBDA seg : seg # "")
                        ELSE <<>>
        IN callOut = Join([i \in 1..Len(segments) |-> TitleOfSegment[segments[i]]], "/")

\* the resource path /system/inputs was converted
C20_Witness ==
    /\ Returned("pathToHierTag")
    /\ callIn = Some(<<"system", "inputs">>)
    /\ callOut = "System/Inputs"

----------------------------------------------------------------------------
(* Determinism of the conversion (checked under SpecTwice) *)

\* the second run over the same input file has ended
SecondRunEnded == runNo = 2 /\ pc \in {"done", "failed"}

\* the second run left the files and the exit status of the first
SameOutput == files = firstFiles /\ exitCode = firstExit

----------------------------------------------------------------------------
(* The step runner all.js *)

MaxArgs == 2
MaxStatus == 2

\* line 6: process.argv.slice(2)
ArgTokens == {"--fetch", "-v", "http://graylog:9000"}
ArgLists == SeqsUpTo(ArgTokens, MaxArgs)

\* line 8: process.env.GRAYLOG_URL is unset, empty or set
EnvUrls == {Absent, Some(""), Some("http://env:9000")}

\* line 12: result.status is the exit code of the child, or null (absent)
\* when a signal ended the child or it could not be spawned
Statuses == {Absent} \cup {Some(n) : n \in 0..MaxStatus}

\* line 7: args.includes('--fetch')
forceFetch(as) == \E i \in 1..Len(as) : as[i] = "--fetch"

\* line 8: args.find(a => !a.startsWith('-')), undefined when there is none
RECURSIVE Find(_)
Find(as) ==
    IF as = <<>> THEN Absent
    ELSE IF ~StartsWith(Head(as), "-") THEN Some(Head(as))
    ELSE Find(Tail(as))

\* line 8: args.find(...) || process.env.GRAYLOG_URL
url(as, env) == IF Truthy(Find(as)) THEN Find(as) ELSE env

\* process.exit(code): null exits with status 0
ExitCodeOf(status) == IF Has(status) THEN Val(status) ELSE 0

\* faulty variant: a step that failed does not end the run
runStepContinues(status) == [exits |-> FALSE, code |-> ExitCodeOf(status)]

\* lines 10-17: runStep after spawnSync returned status
runStep(status) == [exits |-> status # Some(0), code |-> ExitCodeOf(status)]

\* one call of runStep: the step is started, ends with some status, and the
\* runner exits or goes on to the next position
Step(stepName, next) ==
    \E status \in Statuses :
        LET result == runStep(status) IN
        /\ started' = Append(started, stepName)
        /\ statuses' = Append(statuses, status)
        /\ IF result.exits
           THEN pcStep' = "exited" /\ exitStatus' = result.code
           ELSE pcStep' = next /\ exitStatus' = exitStatus

InitSteps ==
    /\ args \in ArgLists
    /\ graylogUrlEnv \in EnvUrls
    /\ pcStep = "clean"
    /\ started = <<>>
    /\ statuses = <<>>
    /\ fileExists = Absent
    /\ exitStatus = -1
    /\ IdleOp
    /\ IdleCat
    /\ IdleRun
    /\ IdleCall

\* line 20
RunClean ==
    /\ pcStep = "clean"
    /\ Step("clean", "check")
    /\ UNCHANGED <<args, graylogUrlEnv, fileExists, opVars, catVars, runVars, callVars>>

\* lines 23-36: the endpoints file is looked for; a fetch that is needed
\* without a URL ends the run with status 1
CheckFetch ==
    /\ pcStep = "check"
    /\ \E exists \in BOOLEAN :
        /\ fileExists' = Some(exists)
        /\ IF forceFetch(args) \/ ~exists
           THEN IF ~Truthy(url(args, graylogUrlEnv))
                THEN pcStep' = "exited" /\ exitStatus' = 1
                ELSE pcStep' = "fetch" /\ exitStatus' = exitStatus
           ELSE pcStep' = "generate" /\ exitStatus' = exitStatus
    /\ UNCHANGED <<args, graylogUrlEnv, started, statuses, opVars, catVars, runVars, callVars>>

\* line 33
RunFetch ==
    /\ pcStep = "fetch"
    /\ Step("fetch", "generate")
    /\ UNCHANGED <<args, graylogUrlEnv, fileExists, opVars, catVars, runVars, callVars>>

\* line 39
RunGenerate ==
    /\ pcStep = "generate"
    /\ Step("generate", "combine")
    /\ UNCHANGED <<args, graylogUrlEnv, fileExists, opVars, catVars, runVars, callVars>>

\* line 42
RunCombine ==
    /\ pcStep = "combine"
    /\ Step("combine", "build-docs")
    /\ UNCHANGED <<args, graylogUrlEnv, fileExists, opVars, catVars, runVars, callVars>>

\* line 45
RunBuildDocs ==
    /\ pcStep = "build-docs"
    /\ Step("build-docs", "completed")
    /\ UNCHANGED <<args, graylogUrlEnv, fileExists, opVars, catVars, runVars, callVars>>

\* line 47: the script reaches its end and the process exits with status 0
Complete ==
    /\ pcStep = "completed"
    /\ pcStep' = "exited"
    /\ exitStatus' = 0
    /\ UNCHANGED <<args, graylogUrlEnv, started, statuses, fileExists,
                   opVars, catVars, runVars, callVars>>

NextSteps ==
    \/ RunClean
    \/ CheckFetch
    \/ RunFetch
    \/ RunGenerate
    \/ RunCombine
    \/ RunBuildDocs
    \/ Complete

SpecSteps == InitSteps /\ [][NextSteps]_vars

----------------------------------------------------------------------------
(* Properties of the step runner (checked under SpecSteps) *)

\* the steps of a whole run in order, with or without the fetch
StepOrder(withFetch) ==
    <<"clean">> \o (IF withFetch THEN <<"fetch">> ELSE <<>>)
    \o <<"generate", "combine", "build-docs">>

IsPrefix(p, q) == Len(p) <= Len(q) /\ SubSeq(q, 1, Len(p)) = p

\* the runner looked for the endpoints file and --fetch is given or the
\* file does not exist
FetchNeeded ==
    Has(fileExists) /\ (("--fetch" \in {args[i] : i \in 1..Len(args)}) \/ ~Val(fileExists))

\* an argument that is not an option, or a non-empty GRAYLOG_URL
UrlGiven ==
    \/ \E i \in 1..Len(args) : args[i] \notin {"--fetch", "-v"}
    \/ graylogUrlEnv \notin {Absent, Some("")}

\* the step started last ended with a status other than 0
LastStepFailed ==
    /\ statuses # <<>>
    /\ Has(statuses[Len(statuses)])
    /\ Val(statuses[Len(statuses)]) # 0

\* C22: the steps run in the order clean, fetch, generate, combine,
\* build-docs, the fetch exactly when --fetch is given or the endpoints file
\* does not exist; every step before the last started one exited with
\* status 0; a step that exits with a non-zero status ends the run with
\* that status; and a fetch that is needed without a URL ends the run with
\* status 1 before generate starts.
C22_StepsInOrderUntilFirstFailure ==
    /\ IsPrefix(started, StepOrder(FetchNeeded))
    /\ Len(statuses) = Len(started)
    /\ \A i \in 1..(Len(started) - 1) : statuses[i] = Some(0)
    /\ LastStepFailed =>
          pcStep = "exited" /\ exitStatus = Val(statuses[Len(statuses)])
    /\ (FetchNeeded /\ ~UrlGiven) =>
          /\ pcStep = "exited"
          /\ exitStatus = 1
          /\ started = <<"clean">>
    /\ (FetchNeeded /\ UrlGiven /\ Len(started) < 2) => pcStep = "fetch"

\* clean and a forced fetch exited with 0, generate exited with 2 and the
\* run ended with 2 before combine
C22_Witness ==
    /\ FetchNeeded
    /\ started = <<"clean", "fetch", "generate">>
    /\ statuses = <<Some(0), Some(0), Some(2)>>
    /\ pcStep = "exited"
    /\ exitStatus = 2

====
